---- MODULE Spec2Model ----
(***************************************************************************)
(* Model of the fusion directory scraper (src/scraper.py) and of the       *)
(* Israeli companies gatherer (src/israeli_companies_gatherer.py).         *)
(*                                                                         *)
(* Text is modelled as a sequence of lexical tokens (words, punctuation,   *)
(* single whitespace characters), so that trimming, substring tests,       *)
(* prefix tests, line splitting and the regular expressions of the code    *)
(* are computed and not assumed.                                           *)
(***************************************************************************)
EXTENDS Naturals, Integers, Sequences, FiniteSets, TLC

VARIABLES
    dom,            \* main page: the elements of the rendered document, in document order
    pcL,            \* position inside extract_company_links
    elements,       \* what the in-page script returned (scraper.py:151)
    company_links,  \* the list built before deduplication (scraper.py:97)
    unique_links,   \* the returned list (scraper.py:221)
    degraded,       \* TRUE once the except branch of scraper.py:195 was entered
    page,           \* the company page the driver has loaded
    pcI,            \* position inside the location part of extract_company_info
    location_headers, \* the elements the XPath queries returned, as positions in the page
    examined,       \* the headers whose text the loop of line 316 has read, in order
    scanned,        \* TRUE once the full-text scan of line 402 was entered
    city,           \* company_info['city']
    state,          \* company_info['state']
    location_text,  \* location_text of line 300
    pc,             \* position inside scrape
    as_script,      \* TRUE when the module global `scraper` of line 641 is bound
    just_gather_categories, \* self.just_gather_categories
    driver,         \* the browser of self.driver: "none", "started" (line 53 ran,
                    \* setup_driver did not return), "open" or "closed" (quit() called)
    idx,            \* idx of the loop of line 510
    company_info,   \* what extract_company_info returned (line 518)
    companies,      \* self.companies
    errors,         \* self.errors
    categories,     \* self.categories
    categories_file, \* the rows of output/fusion_categories.csv
    raising,        \* TRUE while an exception propagates out of scrape
    pcG,            \* position inside the gatherer's __main__ and gather loop
    categories_csv, \* the categories file the gatherer reads
    limit,          \* the limit argument (args.limit)
    gcategories,    \* categories of gather_israeli_companies_for_all_subcategories
    gidx,           \* idx of the loop of gatherer line 177
    full_response,  \* full_response of the query that has just run
    gcompanies,     \* companies of gatherer line 185
    israeli_companies, \* israeli_companies of gatherer line 172
    israeli_csv,    \* the output file of the gatherer
    gtrace,         \* the model queries and delays issued so far, in order
    trace,          \* the company-page fetches and delays of scrape so far, in order
    companies_file, \* output/fusion_companies.csv
    handler,        \* the except clause of the scraper's __main__ that ran, or "none"
    interrupts      \* the KeyboardInterrupts raised in the scraper so far

linkVars == <<dom, pcL, elements, company_links, unique_links, degraded>>

locVars == <<page, pcI, location_headers, examined, scanned, city, state, location_text>>

runVarsButPc == <<as_script, just_gather_categories, driver, idx, company_info, companies,
                  errors, categories, categories_file, raising>>

runVars == <<pc, as_script, just_gather_categories, driver, idx, company_info, companies,
             errors, categories, categories_file, raising>>

gatherVars == <<pcG, categories_csv, limit, gcategories, gidx, full_response, gcompanies,
                israeli_companies, israeli_csv, gtrace>>

mainVars == <<trace, companies_file, handler, interrupts>>

vars == <<linkVars, locVars, runVars, gatherVars, mainVars>>

-----------------------------------------------------------------------------
(* Bounds *)

MaxElems == 3

MaxBlocks == 2

MaxRows == 2

MaxInterrupts == 2

\* program constants
MaxHeaderLen == 50

SectionLen == 200

-----------------------------------------------------------------------------
(* Text helpers *)

WS == {" ", "\n"}

RECURSIVE LStrip(_)
LStrip(s) == IF s # <<>> /\ Head(s) \in WS THEN LStrip(Tail(s)) ELSE s

RECURSIVE RStrip(_)
RStrip(s) == IF s # <<>> /\ s[Len(s)] \in WS THEN RStrip(SubSeq(s, 1, Len(s) - 1)) ELSE s

\* str.strip() / String.prototype.trim()
Trim(s) == RStrip(LStrip(s))

\* sub in s
Contains(s, sub) ==
    \E i \in 0..(Len(s) - Len(sub)) : SubSeq(s, i + 1, i + Len(sub)) = sub

\* s.startswith(t) for a prefix t that is one token
StartsWithTok(s, toks) == s # <<>> /\ Head(s) \in toks

-----------------------------------------------------------------------------
(* extract_company_links *)

Unknown == <<"Unknown">>

OrgMarker == <<"/", "organizations", "/">>

base_url == <<"https", "://", "www.fusionenergybase.com">>

\* querySelectorAll('.h2-responsive, .h2-bold, a[href*="/organizations/"]')
Selected(el) ==
    \/ el.kind \in {"h2-responsive", "h2-bold"}
    \/ el.kind = "a" /\ Contains(el.href, OrgMarker)

\* the item pushed onto `ordered` for one selected element
OrderedItem(el) ==
    IF el.kind = "h2-responsive"
      THEN [type |-> "category", text |-> Trim(el.text), href |-> <<>>]
    ELSE IF el.kind = "h2-bold"
      THEN [type |-> "subcategory", text |-> Trim(el.text), href |-> <<>>]
    ELSE [type |-> "link", text |-> Trim(el.text), href |-> el.href]

RECURSIVE Ordered(_)
Ordered(d) ==
    IF d = <<>> THEN <<>>
    ELSE IF Selected(Head(d)) THEN <<OrderedItem(Head(d))>> \o Ordered(Tail(d))
    ELSE Ordered(Tail(d))

\* first backtracking loop (j from i-1 down to 0): stops at the nearest
\* subcategory, and on the way takes a category while cat is still 'Unknown'
RECURSIVE BacktrackSub(_, _, _)
BacktrackSub(ord, j, cat) ==
    IF j = 0 THEN [sub |-> Unknown, cat |-> cat]
    ELSE IF ord[j].type = "subcategory" THEN [sub |-> ord[j].text, cat |-> cat]
    ELSE BacktrackSub(ord, j - 1,
            IF ord[j].type = "category" /\ cat = Unknown THEN ord[j].text ELSE cat)

\* second backtracking loop (k from i-1 down to 0): nearest category
RECURSIVE BacktrackCat(_, _)
BacktrackCat(ord, k) ==
    IF k = 0 THEN Unknown
    ELSE IF ord[k].type = "category" THEN ord[k].text
    ELSE BacktrackCat(ord, k - 1)

\* the condition of the script on one item
ScriptKeeps(item) ==
    /\ item.type = "link"
    /\ item.href # <<>>
    /\ Contains(item.href, OrgMarker)
    /\ item.text # <<>>

ScriptEntry(ord, i) ==
    LET r == BacktrackSub(ord, i - 1, Unknown)
        cat == IF r.cat = Unknown THEN BacktrackCat(ord, i - 1) ELSE r.cat
    IN [type |-> "link", href |-> ord[i].href, text |-> ord[i].text,
        category |-> cat, subcategory |-> r.sub]

RECURSIVE ScriptFrom(_, _)
ScriptFrom(ord, i) ==
    IF i > Len(ord) THEN <<>>
    ELSE IF ScriptKeeps(ord[i]) THEN <<ScriptEntry(ord, i)>> \o ScriptFrom(ord, i + 1)
    ELSE ScriptFrom(ord, i + 1)

\* driver.execute_script(script)
ScriptResult(d) == ScriptFrom(Ordered(d), 1)

HrefUsable(href) ==
    StartsWithTok(href, {"/"}) \/ StartsWithTok(href, {"http", "https"})

\* "Build full URL"
FullUrl(href) == IF StartsWithTok(href, {"/"}) THEN base_url \o href ELSE href

\* ProcessElems without the `else: continue` of line 184
RECURSIVE ProcessElemsAnyPrefix(_)
ProcessElemsAnyPrefix(es) ==
    IF es = <<>> THEN <<>>
    ELSE LET e == Head(es)
             text == Trim(e.text)
         IN IF Contains(FullUrl(e.href), OrgMarker) /\ text # <<>>
              THEN <<[url |-> FullUrl(e.href), category |-> e.category,
                      subcategory |-> e.subcategory, link_text |-> text]>>
                   \o ProcessElemsAnyPrefix(Tail(es))
              ELSE ProcessElemsAnyPrefix(Tail(es))

\* the loop over the script's result; every element has type 'link' and
\* carries its own category and subcategory, so the running variables of
\* lines 157-170 are never read
RECURSIVE ProcessElems(_)
ProcessElems(es) ==
    IF es = <<>> THEN <<>>
    ELSE LET e == Head(es)
             text == Trim(e.text)
         IN IF HrefUsable(e.href) /\ Contains(FullUrl(e.href), OrgMarker) /\ text # <<>>
              THEN <<[url |-> FullUrl(e.href), category |-> e.category,
                      subcategory |-> e.subcategory, link_text |-> text]>>
                   \o ProcessElems(Tail(es))
              ELSE ProcessElems(Tail(es))

\* WebElement.get_attribute('href'): the resolved URL of the anchor
ResolvedHref(href) ==
    IF StartsWithTok(href, {"http", "https"}) THEN href
    ELSE IF StartsWithTok(href, {"/"}) THEN base_url \o href
    ELSE IF StartsWithTok(href, {".."}) THEN base_url \o Tail(href)
    ELSE base_url \o <<"/">> \o href

\* the link-only scan; `stale` is the set of positions whose read raises
RECURSIVE FallbackFrom(_, _, _)
FallbackFrom(d, i, stale) ==
    IF i > Len(d) THEN <<>>
    ELSE LET el == d[i]
             href == ResolvedHref(el.href)
             text == Trim(el.text)
         IN IF el.kind = "a" /\ Contains(el.href, OrgMarker) /\ i \notin stale
               /\ href # <<>> /\ text # <<>>
              THEN <<[url |-> href, category |-> Unknown,
                      subcategory |-> Unknown, link_text |-> text]>>
                   \o FallbackFrom(d, i + 1, stale)
              ELSE FallbackFrom(d, i + 1, stale)

FallbackLinks(d, stale) == FallbackFrom(d, 1, stale)

\* "Remove duplicates"
RECURSIVE DedupeFrom(_, _)
DedupeFrom(links, seen_urls) ==
    IF links = <<>> THEN <<>>
    ELSE IF Head(links).url \notin seen_urls
      THEN <<Head(links)>> \o DedupeFrom(Tail(links), seen_urls \cup {Head(links).url})
    ELSE DedupeFrom(Tail(links), seen_urls)

\* RemoveDuplicates keeping the last occurrence of a url instead of the first
RECURSIVE RemoveDuplicatesKeepLast(_)
RemoveDuplicatesKeepLast(links) ==
    IF links = <<>> THEN <<>>
    ELSE IF \E i \in 2..Len(links) : links[i].url = Head(links).url
      THEN RemoveDuplicatesKeepLast(Tail(links))
    ELSE <<Head(links)>> \o RemoveDuplicatesKeepLast(Tail(links))

RemoveDuplicates(links) == DedupeFrom(links, {})

\* the scan's exception leaving the function instead of being swallowed
AfterScanFailureRaises == "raised"

\* where control goes when the link-only scan itself raises (bare except: pass)
AfterScanFailure == "dedupe"

-----------------------------------------------------------------------------
(* Lexical classes of the tokens that occur in company pages *)

\* words of the shape [A-Z][a-z]+
CapWords ==
    {"Location", "Austin", "Boston", "New", "York", "Tel", "Aviv", "Israel",
     "Texas", "Our", "Hours", "Washington"}

\* words of the shape [A-Z]{2}
Upper2Words == {"TX", "NY", "DC", "UK"}

\* other words; Filler60 and Filler190 stand for runs of 60 and 190
\* lower-case letters
OtherWords == {"LOCATION", "location", "and", "tx", "Filler60", "Filler190"}

WordToks == CapWords \cup Upper2Words \cup OtherWords

\* len() of one token
TokLen(t) ==
    CASE t \in WS \cup {",", ":", "."} -> 1
      [] t \in Upper2Words \cup {"tx"} -> 2
      [] t \in {"New", "Tel", "Our", "and"} -> 3
      [] t \in {"York", "Aviv"} -> 4
      [] t \in {"Texas", "Hours"} -> 5
      [] t \in {"Austin", "Boston", "Israel"} -> 6
      [] t \in {"Location", "LOCATION", "location"} -> 8
      [] t = "Washington" -> 10
      [] t = "Filler60" -> 60
      [] t = "Filler190" -> 190

RECURSIVE CharLen(_)
CharLen(s) == IF s = <<>> THEN 0 ELSE TokLen(Head(s)) + CharLen(Tail(s))

\* 'location' in s.lower(): the only tokens with these letters are the
\* three spellings of the word itself
HasLocationWord(s) ==
    \E i \in 1..Len(s) : s[i] \in {"Location", "LOCATION", "location"}

\* s.lower() == 'location'
IsLocationWord(s) == Len(s) = 1 /\ HasLocationWord(s)

\* str.upper() of a token; "tx" is the only token with a lower-case letter
\* among those of two characters, the only ones upper() is applied to
UpperTok(t) == IF t = "tx" THEN "TX" ELSE t

Upper(s) == [i \in 1..Len(s) |-> UpperTok(s[i])]

\* the position of the first token at or after i that is not in skip
RECURSIVE SkipToks(_, _, _)
SkipToks(s, i, skip) ==
    IF i <= Len(s) /\ s[i] \in skip THEN SkipToks(s, i + 1, skip) ELSE i

\* \b after the word token at position t
BoundaryAfter(s, t) == t = Len(s) \/ s[t + 1] \notin WordToks

-----------------------------------------------------------------------------
(* The state tables of extract_company_info *)

us_states_2 ==
    { <<c>> : c \in {
      "AL", "AK", "AZ", "AR", "CA", "CO", "CT", "DE", "FL", "GA", "HI", "ID", "IL",
      "IN", "IA", "KS", "KY", "LA", "ME", "MD", "MA", "MI", "MN", "MS", "MO", "MT",
      "NE", "NV", "NH", "NJ", "NM", "NY", "NC", "ND", "OH", "OK", "OR", "PA", "RI",
      "SC", "SD", "TN", "TX", "UT", "VT", "VA", "WA", "WV", "WI", "WY" } }

us_state_map_items ==
    {
      <<<<"Alabama">>, "AL">>, <<<<"Alaska">>, "AK">>, <<<<"Arizona">>, "AZ">>,
      <<<<"Arkansas">>, "AR">>, <<<<"California">>, "CA">>, <<<<"Colorado">>, "CO">>,
      <<<<"Connecticut">>, "CT">>, <<<<"Delaware">>, "DE">>, <<<<"Florida">>, "FL">>,
      <<<<"Georgia">>, "GA">>, <<<<"Hawaii">>, "HI">>, <<<<"Idaho">>, "ID">>,
      <<<<"Illinois">>, "IL">>, <<<<"Indiana">>, "IN">>, <<<<"Iowa">>, "IA">>,
      <<<<"Kansas">>, "KS">>, <<<<"Kentucky">>, "KY">>, <<<<"Louisiana">>, "LA">>,
      <<<<"Maine">>, "ME">>, <<<<"Maryland">>, "MD">>, <<<<"Massachusetts">>, "MA">>,
      <<<<"Michigan">>, "MI">>, <<<<"Minnesota">>, "MN">>, <<<<"Mississippi">>, "MS">>,
      <<<<"Missouri">>, "MO">>, <<<<"Montana">>, "MT">>, <<<<"Nebraska">>, "NE">>,
      <<<<"Nevada">>, "NV">>, <<<<"New", " ", "Hampshire">>, "NH">>, <<<<"New", " ", "Jersey">>, "NJ">>,
      <<<<"New", " ", "Mexico">>, "NM">>, <<<<"New", " ", "York">>, "NY">>, <<<<"North", " ", "Carolina">>, "NC">>,
      <<<<"North", " ", "Dakota">>, "ND">>, <<<<"Ohio">>, "OH">>, <<<<"Oklahoma">>, "OK">>,
      <<<<"Oregon">>, "OR">>, <<<<"Pennsylvania">>, "PA">>, <<<<"Rhode", " ", "Island">>, "RI">>,
      <<<<"South", " ", "Carolina">>, "SC">>, <<<<"South", " ", "Dakota">>, "SD">>, <<<<"Tennessee">>, "TN">>,
      <<<<"Texas">>, "TX">>, <<<<"Utah">>, "UT">>, <<<<"Vermont">>, "VT">>,
      <<<<"Virginia">>, "VA">>, <<<<"Washington">>, "WA">>, <<<<"West", " ", "Virginia">>, "WV">>,
      <<<<"Wisconsin">>, "WI">>, <<<<"Wyoming">>, "WY">>, <<<<"District", " ", "of", " ", "Columbia">>, "DC">>,
      <<<<"D", ".", "C", ".">>, "DC">>, <<<<"Washington", " ", "DC">>, "DC">>, <<<<"Washington", ",", " ", "DC">>, "DC">> }

us_state_map_keys == { kv[1] : kv \in us_state_map_items }

us_state_map_values == { <<kv[2]>> : kv \in us_state_map_items }

\* us_state_map[name]
us_state_map(name) == <<(CHOOSE kv \in us_state_map_items : kv[1] = name)[2]>>

-----------------------------------------------------------------------------
(* The location patterns *)

\* ([A-Z][a-z]+(?:\s+[A-Z][a-z]+)?), matched at position i: one or two
\* capitalised words directly followed by a comma
CityAt(s, i) ==
    IF i < 1 \/ i > Len(s) \/ s[i] \notin CapWords
      THEN [ok |-> FALSE, city |-> <<>>, comma |-> 0]
    ELSE LET k == SkipToks(s, i + 1, WS)
         IN IF k > i + 1 /\ k + 1 <= Len(s) /\ s[k] \in CapWords /\ s[k + 1] = ","
              THEN [ok |-> TRUE, city |-> SubSeq(s, i, k), comma |-> k + 1]
            ELSE IF i + 1 <= Len(s) /\ s[i + 1] = ","
              THEN [ok |-> TRUE, city |-> <<s[i]>>, comma |-> i + 1]
            ELSE [ok |-> FALSE, city |-> <<>>, comma |-> 0]

\* one pattern matched with its first character at position i;
\* labelled: the pattern begins with Location[:\s]*
\* words: the set of tokens the second group can be ([A-Z]{2} or [A-Z][a-z]+)
MatchAt(s, i, labelled, words) ==
    LET j == IF ~labelled THEN i
             ELSE IF s[i] = "Location" THEN SkipToks(s, i + 1, WS \cup {":"})
             ELSE 0
        c == CityAt(s, j)
        t == SkipToks(s, c.comma + 1, WS)
    IN IF c.ok /\ t <= Len(s) /\ s[t] \in words /\ BoundaryAfter(s, t)
         THEN <<c.city, <<s[t]>>>>
         ELSE <<>>

\* re.findall(pattern, s)[0], or <<>> when there is no match
FirstMatch(s, pattern) ==
    LET I == { i \in 1..Len(s) : MatchAt(s, i, pattern.labelled, pattern.words) # <<>> }
    IN IF I = {} THEN <<>>
       ELSE MatchAt(s, CHOOSE i \in I : \A k \in I : i <= k, pattern.labelled, pattern.words)

location_patterns ==
    << [labelled |-> TRUE,  words |-> Upper2Words],
       [labelled |-> TRUE,  words |-> CapWords],
       [labelled |-> FALSE, words |-> Upper2Words],
       [labelled |-> FALSE, words |-> CapWords] >>

patterns ==
    << [labelled |-> TRUE, words |-> Upper2Words],
       [labelled |-> TRUE, words |-> CapWords] >>

NoLocation == [found |-> FALSE, city |-> <<>>, state |-> <<>>, location_text |-> <<>>]

\* the loop over location_patterns on the gathered text (lines 358-375),
\* from pattern k on
RECURSIVE HeadingPatterns(_, _)
HeadingPatterns(cand, k) ==
    IF k > Len(location_patterns) THEN NoLocation
    ELSE LET m == FirstMatch(cand, location_patterns[k])
         IN IF m = <<>> THEN HeadingPatterns(cand, k + 1)
            ELSE IF CharLen(m[2]) = 2 /\ Upper(m[2]) \in us_states_2
              THEN [found |-> TRUE, city |-> m[1], state |-> Upper(m[2]),
                    location_text |-> m[1] \o <<",", " ">> \o m[2]]
            ELSE IF m[2] \in us_state_map_keys
              THEN [found |-> TRUE, city |-> m[1], state |-> us_state_map(m[2]),
                    location_text |-> m[1] \o <<",", " ">> \o us_state_map(m[2])]
            ELSE HeadingPatterns(cand, k + 1)

\* position of the first comma
FirstComma(s) == CHOOSE i \in 1..Len(s) : s[i] = "," /\ \A j \in 1..(i - 1) : s[j] # ","

\* CommaSplit that keeps the right part as it is
CommaSplitVerbatim(cand) ==
    IF "," \notin { cand[i] : i \in 1..Len(cand) } THEN NoLocation
    ELSE LET c == FirstComma(cand)
             first == Trim(SubSeq(cand, 1, c - 1))
             second == Trim(SubSeq(cand, c + 1, Len(cand)))
         IN IF first = <<>> THEN NoLocation
            ELSE [found |-> TRUE, city |-> first, state |-> second, location_text |-> cand]

\* lines 378-392: split once at the first comma
CommaSplit(cand) ==
    IF "," \notin { cand[i] : i \in 1..Len(cand) } THEN NoLocation
    ELSE LET c == FirstComma(cand)
             first == Trim(SubSeq(cand, 1, c - 1))
             second == Trim(SubSeq(cand, c + 1, Len(cand)))
         IN IF first = <<>> THEN NoLocation
            ELSE [found |-> TRUE, city |-> first,
                  state |-> IF CharLen(second) = 2 /\ Upper(second) \in us_state_map_values
                              THEN Upper(second)
                            ELSE IF second \in us_state_map_keys THEN us_state_map(second)
                            ELSE second,
                  location_text |-> cand]

\* lines 349-392 on a non-empty gathered text
LocationFromCandidate(cand) ==
    LET p == HeadingPatterns(cand, 1)
    IN IF p.found THEN p ELSE CommaSplit(cand)

\* the loop over patterns of the full-text scan (lines 415-435), from pattern k on
RECURSIVE SectionPatterns(_, _)
SectionPatterns(section, k) ==
    IF k > Len(patterns) THEN NoLocation
    ELSE LET m == FirstMatch(section, patterns[k])
         IN IF m = <<>> THEN SectionPatterns(section, k + 1)
            ELSE IF CharLen(m[2]) = 2 /\ Upper(m[2]) \in us_states_2
              THEN [found |-> TRUE, city |-> m[1], state |-> Upper(m[2]), location_text |-> <<>>]
            ELSE IF m[2] \in us_state_map_keys
              THEN [found |-> TRUE, city |-> m[1], state |-> us_state_map(m[2]), location_text |-> <<>>]
            ELSE [found |-> TRUE, city |-> m[1], state |-> m[2], location_text |-> <<>>]

-----------------------------------------------------------------------------
(* Company pages *)

\* A company page: the text that precedes its blocks, and its blocks in
\* document order.  A block is an element with its own text, the text of
\* the element that follows it (<<>> when none follows or it is empty) and
\* the text that follows it inside its parent.
Block(h, t, sib, aft) == [heading |-> h, text |-> t, sibling |-> sib, after |-> aft]

\* parent.text
ParentText(b) == b.text \o <<"\n">> \o b.sibling \o <<"\n">> \o b.after

BlockPageText(b) ==
    IF b.sibling # <<>> THEN b.text \o <<"\n">> \o b.sibling \o <<"\n">>
    ELSE b.text \o <<"\n">> \o b.after \o <<"\n">>

RECURSIVE BlocksText(_)
BlocksText(bs) == IF bs = <<>> THEN <<>> ELSE BlockPageText(Head(bs)) \o BlocksText(Tail(bs))

\* soup.get_text()
PageText(p) == p.pre \o <<"\n">> \o BlocksText(p.blocks)

\* the headings whose whole text is "location" (first XPath), as positions
ExactHeaders(p) ==
    SelectSeq([i \in 1..Len(p.blocks) |-> i],
              LAMBDA i : p.blocks[i].heading /\ IsLocationWord(Trim(p.blocks[i].text)))

\* any element whose text contains "location" (second XPath), as positions
ContainingElements(p) ==
    SelectSeq([i \in 1..Len(p.blocks) |-> i],
              LAMBDA i : HasLocationWord(p.blocks[i].text))

\* lines 305-314
LocationHeaders(p) ==
    IF ExactHeaders(p) # <<>> THEN ExactHeaders(p) ELSE ContainingElements(p)

\* line 319
HeaderPasses(b) == HasLocationWord(Trim(b.text)) /\ CharLen(Trim(b.text)) < MaxHeaderLen

\* str.splitlines()
RECURSIVE SplitLines(_, _)
SplitLines(s, cur) ==
    IF s = <<>> THEN (IF cur = <<>> THEN <<>> ELSE <<cur>>)
    ELSE IF Head(s) = "\n" THEN <<cur>> \o SplitLines(Tail(s), <<>>)
    ELSE SplitLines(Tail(s), Append(cur, Head(s)))

\* [l.strip() for l in parent_text.splitlines() if l.strip()]
StrippedLines(s) ==
    LET ls == SplitLines(s, <<>>)
        trimmed == [i \in 1..Len(ls) |-> Trim(ls[i])]
    IN SelectSeq(trimmed, LAMBDA l : l # <<>>)

\* lines 331-344: the first non-empty line after the line "Location"
ParentCandidate(b) ==
    LET parent_text == Trim(ParentText(b))
        lines == StrippedLines(parent_text)
        I == { i \in 1..Len(lines) : IsLocationWord(lines[i]) }
        loc_idx == IF I = {} THEN 0 ELSE CHOOSE i \in I : \A k \in I : i <= k
    IN IF HasLocationWord(parent_text) /\ loc_idx # 0 /\ loc_idx + 1 <= Len(lines)
         THEN lines[loc_idx + 1]
         ELSE <<>>

\* lines 322-346
GatherCandidate(b) ==
    IF Trim(b.sibling) # <<>> THEN Trim(b.sibling) ELSE ParentCandidate(b)

\* lines 317-392 for one header
ExamineResult(b) ==
    IF HeaderPasses(b) /\ GatherCandidate(b) # <<>>
      THEN LocationFromCandidate(GatherCandidate(b))
      ELSE NoLocation

\* s[:n] in characters, for a cut that falls between two tokens
RECURSIVE TakeChars(_, _)
TakeChars(s, n) ==
    IF s = <<>> \/ TokLen(Head(s)) > n THEN <<>>
    ELSE <<Head(s)>> \o TakeChars(Tail(s), n - TokLen(Head(s)))

\* page_text[location_index:location_index+200]; <<>> when find() gives -1
LocationSection(text) ==
    LET I == { i \in 1..Len(text) : HasLocationWord(<<text[i]>>) }
    IN IF I = {} THEN <<>>
       ELSE TakeChars(SubSeq(text, CHOOSE i \in I : \A k \in I : i <= k, Len(text)),
                      SectionLen)

\* lines 405-435
FullTextResult(p) == SectionPatterns(LocationSection(PageText(p)), 1)

\* the full-text scan entered whatever the heading strategy found
FullTextAlways(loc_text) == TRUE

\* `if not location_text` of line 402
FullTextRuns(loc_text) == loc_text = <<>>

\* `if location_text: break` of line 394
LoopBreaks(loc_text) == loc_text # <<>>

-----------------------------------------------------------------------------
(* Pages the main page can be *)

Cat(t) == [kind |-> "h2-responsive", href |-> <<>>, text |-> t]
Sub(t) == [kind |-> "h2-bold", href |-> <<>>, text |-> t]
Anchor(h, t) == [kind |-> "a", href |-> h, text |-> t]

HrefA == <<"/", "organizations", "/", "a">>
HrefB == <<"/", "organizations", "/", "b">>

MainElems ==
    { Cat(<<"A">>), Cat(<<" ", "B", " ">>), Cat(<<"Unknown">>),
      Sub(<<"S">>), Sub(<<"T", "\n">>),
      Anchor(HrefA, <<" ", "Acme", " ">>),
      Anchor(base_url \o HrefA, <<"Beta">>),
      Anchor(HrefB, <<"Acme">>),
      Anchor(<<"..", "/", "organizations", "/", "c">>, <<"Gamma">>),
      Anchor(<<"/", "about">>, <<"About">>),
      Anchor(HrefB, <<" ">>) }

Doms == UNION { [1..n -> MainElems] : n \in 0..MaxElems }

-----------------------------------------------------------------------------
(* extract_company_links as a state machine *)

\* no company page is loaded
NoPage == [pre |-> <<>>, blocks |-> <<>>]

\* the rest states of the two procedures
LinksIdle ==
    /\ dom = <<>>
    /\ pcL = "idle"
    /\ elements = <<>>
    /\ company_links = <<>>
    /\ unique_links = <<>>
    /\ degraded = FALSE

LocIdle ==
    /\ page = NoPage
    /\ pcI = "idle"
    /\ location_headers = <<>>
    /\ examined = <<>>
    /\ scanned = FALSE
    /\ city = <<>>
    /\ state = <<>>
    /\ location_text = <<>>

\* extract_company_info returned None (line 234)
None == [returned |-> "None"]

\* no output file has been written
NoFile == [written |-> FALSE, rows |-> <<>>]

\* the state of a scraper object on which scrape has not been called
RunIdle ==
    /\ pc = "idle"
    /\ as_script = TRUE
    /\ just_gather_categories = FALSE
    /\ driver = "none"
    /\ idx = 0
    /\ company_info = None
    /\ companies = <<>>
    /\ errors = <<>>
    /\ categories = <<>>
    /\ categories_file = <<>>
    /\ raising = FALSE
    /\ trace = <<>>
    /\ companies_file = NoFile
    /\ handler = "none"
    /\ interrupts = 0

\* no limit given (None)
NoLimit == [given |-> FALSE, n |-> 0]

\* the categories file does not exist
MissingFile == [kind |-> "missing", rows |-> <<>>]

\* the state of a process in which the gatherer does not run
GatherIdle ==
    /\ pcG = "idle"
    /\ categories_csv = MissingFile
    /\ limit = NoLimit
    /\ gcategories = <<>>
    /\ gidx = 0
    /\ full_response = <<>>
    /\ gcompanies = <<>>
    /\ israeli_companies = <<>>
    /\ israeli_csv = NoFile
    /\ gtrace = <<>>

InitLinks ==
    /\ RunIdle
    /\ GatherIdle
    /\ dom \in Doms
    /\ pcL = "start"
    /\ elements = <<>>
    /\ company_links = <<>>
    /\ unique_links = <<>>
    /\ degraded = FALSE
    /\ LocIdle

\* lines 101-151 succeed
RunScript ==
    /\ pcL = "start"
    /\ elements' = ScriptResult(dom)
    /\ pcL' = "process"
    /\ UNCHANGED <<dom, company_links, unique_links, degraded, locVars, runVars, gatherVars, mainVars>>

\* find_elements or execute_script raises: control enters the except branch
ScriptFails ==
    /\ pcL = "start"
    /\ pcL' = "fallback"
    /\ degraded' = TRUE
    /\ UNCHANGED <<dom, elements, company_links, unique_links, locVars, runVars, gatherVars, mainVars>>

\* lines 156-193
ProcessElements ==
    /\ pcL = "process"
    /\ company_links' = ProcessElems(elements)
    /\ pcL' = "dedupe"
    /\ UNCHANGED <<dom, elements, unique_links, degraded, locVars, runVars, gatherVars, mainVars>>

\* lines 200-215: the link-only scan, some reads of single links raising
FallbackScan ==
    /\ pcL = "fallback"
    /\ \E stale \in SUBSET (1..Len(dom)) :
          company_links' = FallbackLinks(dom, stale)
    /\ pcL' = "dedupe"
    /\ UNCHANGED <<dom, elements, unique_links, degraded, locVars, runVars, gatherVars, mainVars>>

\* lines 216-217: the link-only scan itself raises
FallbackScanFails ==
    /\ pcL = "fallback"
    /\ pcL' = AfterScanFailure
    /\ UNCHANGED <<dom, elements, company_links, unique_links, degraded, locVars, runVars, gatherVars, mainVars>>

\* lines 219-228
Deduplicate ==
    /\ pcL = "dedupe"
    /\ unique_links' = RemoveDuplicates(company_links)
    /\ pcL' = "done"
    /\ UNCHANGED <<dom, elements, company_links, degraded, locVars, runVars, gatherVars, mainVars>>

NextLinks ==
    \/ RunScript
    \/ ScriptFails
    \/ ProcessElements
    \/ FallbackScan
    \/ FallbackScanFails
    \/ Deduplicate

SpecLinks == InitLinks /\ [][NextLinks]_vars

-----------------------------------------------------------------------------
(* Pages a company page can be *)

LocHeading == <<"Location">>

LocBlocks ==
    { Block(TRUE, LocHeading, <<"Austin", ",", " ", "TX">>, <<>>),
      Block(TRUE, <<"LOCATION">>, <<>>, <<"New", " ", "York", ",", " ", "New", " ", "York">>),
      Block(TRUE, <<" ", "Location", "\n">>, <<"Tel", " ", "Aviv", ",", " ", "Israel">>, <<>>),
      Block(FALSE, <<"Our", " ", "Location", " ", "and", " ", "Hours">>,
            <<"Boston", ",", " ", "Texas">>, <<>>),
      Block(TRUE, LocHeading, <<"and">>, <<>>),
      Block(FALSE, <<"Location", " ", "Filler60">>, <<"Austin", ",", " ", "TX">>, <<>>),
      Block(TRUE, LocHeading, <<"Austin", ",", " ", "tx">>, <<>>),
      Block(TRUE, LocHeading, <<",", " ", "Israel">>, <<>>),
      Block(TRUE, LocHeading, <<"Location", ":", " ", "Austin", ",", " ", "TX">>, <<>>),
      Block(TRUE, LocHeading, <<"Washington", ",", " ", "DC">>, <<>>),
      Block(TRUE, LocHeading, <<"Boston", ",", " ", "UK">>, <<>>) }

PreTexts ==
    { <<>>,
      <<"Location", ":", " ", "Austin", ",", " ", "TX">>,
      <<"Location", ":", " ", "New", " ", "York", ",", " ", "New", " ", "York">>,
      <<"Location", "\n", "Tel", " ", "Aviv", ",", " ", "Israel">>,
      <<"location", " ", "and", " ", "Hours", ".", " ",
        "Location", ":", " ", "Boston", ",", " ", "Texas">>,
      <<"Location", " ", "Filler190", " ", "Location", ":", " ", "Austin", ",", " ", "TX">>,
      <<"Location", ":", " ", "Boston", ",", " ", "UK">>,
      <<"Austin", ",", " ", "TX">> }

CompanyPages ==
    { [pre |-> t, blocks |-> bs] :
        t \in PreTexts, bs \in UNION { [1..n -> LocBlocks] : n \in 0..MaxBlocks } }


-----------------------------------------------------------------------------
(* The location part of extract_company_info as a state machine *)

InitLoc ==
    /\ LinksIdle
    /\ RunIdle
    /\ GatherIdle
    /\ page \in CompanyPages
    /\ pcI = "find"
    /\ location_headers = <<>>
    /\ examined = <<>>
    /\ scanned = FALSE
    /\ city = <<>>
    /\ state = <<>>
    /\ location_text = <<>>

\* lines 305-314
FindLocationHeaders ==
    /\ pcI = "find"
    /\ location_headers' = LocationHeaders(page)
    /\ pcI' = "headers"
    /\ UNCHANGED <<page, examined, scanned, city, state, location_text, linkVars, runVars, gatherVars, mainVars>>

\* find_elements, or header.text of the next header, raises: line 398
HeaderLookupFails ==
    /\ \/ pcI = "find"
       \/ pcI = "headers" /\ Len(examined) < Len(location_headers)
    /\ pcI' = "fulltext"
    /\ UNCHANGED <<page, location_headers, examined, scanned, city, state,
                   location_text, linkVars, runVars, gatherVars, mainVars>>

\* one iteration of the loop of line 316
ExamineHeader ==
    /\ pcI = "headers"
    /\ Len(examined) < Len(location_headers)
    /\ LET h == location_headers[Len(examined) + 1]
           r == ExamineResult(page.blocks[h])
       IN /\ examined' = Append(examined, h)
          /\ city' = IF r.found THEN r.city ELSE city
          /\ state' = IF r.found THEN r.state ELSE state
          /\ location_text' = IF r.found THEN r.location_text ELSE location_text
          /\ pcI' = IF LoopBreaks(location_text') THEN "fulltext" ELSE "headers"
    /\ UNCHANGED <<page, location_headers, scanned, linkVars, runVars, gatherVars, mainVars>>

\* the loop of line 316 ends without a break
HeadersExhausted ==
    /\ pcI = "headers"
    /\ Len(examined) = Len(location_headers)
    /\ pcI' = "fulltext"
    /\ UNCHANGED <<page, location_headers, examined, scanned, city, state,
                   location_text, linkVars, runVars, gatherVars, mainVars>>

\* lines 402-435
FullTextScan ==
    /\ pcI = "fulltext"
    /\ FullTextRuns(location_text)
    /\ LET r == FullTextResult(page)
       IN /\ city' = IF r.found THEN r.city ELSE city
          /\ state' = IF r.found THEN r.state ELSE state
    /\ scanned' = TRUE
    /\ pcI' = "return"
    /\ UNCHANGED <<page, location_headers, examined, location_text, linkVars, runVars, gatherVars, mainVars>>

\* lines 436-437: soup.get_text() raises inside the full-text scan
FullTextFails ==
    /\ pcI = "fulltext"
    /\ FullTextRuns(location_text)
    /\ scanned' = TRUE
    /\ pcI' = "return"
    /\ UNCHANGED <<page, location_headers, examined, city, state, location_text, linkVars, runVars, gatherVars, mainVars>>

\* line 402 false
SkipFullText ==
    /\ pcI = "fulltext"
    /\ ~FullTextRuns(location_text)
    /\ pcI' = "return"
    /\ UNCHANGED <<page, location_headers, examined, scanned, city, state,
                   location_text, linkVars, runVars, gatherVars, mainVars>>

NextLoc ==
    \/ FindLocationHeaders
    \/ HeaderLookupFails
    \/ ExamineHeader
    \/ HeadersExhausted
    \/ FullTextScan
    \/ FullTextFails
    \/ SkipFullText

SpecLoc == InitLoc /\ [][NextLoc]_vars

-----------------------------------------------------------------------------
(* scrape as a state machine *)

main_url == base_url \o <<"/", "supply-chain">>

\* the main pages of the runs
PipelineDoms ==
    { <<>>,
      <<Cat(<<"A">>), Sub(<<"S">>), Anchor(HrefA, <<" ", "Acme", " ">>)>>,
      <<Cat(<<"A">>), Anchor(HrefA, <<" ", "Acme", " ">>), Sub(<<"S">>),
        Anchor(HrefB, <<"Acme">>)>>,
      <<Anchor(HrefA, <<" ", "Acme", " ">>), Cat(<<"A">>), Anchor(HrefB, <<"Acme">>),
        Anchor(HrefA, <<" ", "Acme", " ">>)>>,
      <<Cat(<<"A">>), Sub(<<"S">>), Anchor(HrefA, <<" ", "Acme", " ">>),
        Anchor(HrefB, <<"Acme">>)>> }

\* the company pages of the runs
PipelinePages ==
    { [pre |-> <<"Austin", ",", " ", "TX">>, blocks |-> <<>>],
      [pre |-> <<>>, blocks |-> <<Block(TRUE, LocHeading, <<"and">>, <<>>)>>],
      [pre |-> <<>>, blocks |-> <<Block(TRUE, LocHeading, <<"Austin", ",", " ", "TX">>, <<>>)>>],
      [pre |-> <<"Location", ":", " ", "Boston", ",", " ", "UK">>, blocks |-> <<>>] }

\* lines 480-489: the pairs of the links, each once, in order of first occurrence
RECURSIVE GatherPairs(_, _)
GatherPairs(links, seen_pairs) ==
    IF links = <<>> THEN <<>>
    ELSE LET pair == [category |-> Head(links).category,
                      subcategory |-> Head(links).subcategory]
         IN IF pair \in seen_pairs THEN GatherPairs(Tail(links), seen_pairs)
            ELSE <<pair>> \o GatherPairs(Tail(links), seen_pairs \cup {pair})

\* the order of Python's string comparison on the texts of the main pages
TextRank(t) ==
    CASE t = <<"A">> -> 1
      [] t = <<"B">> -> 2
      [] t = <<"S">> -> 3
      [] t = <<"T">> -> 4
      [] t = Unknown -> 5
      [] OTHER -> 6

\* (x['category'], x['subcategory']) compared as tuples
PairBefore(a, b) ==
    \/ TextRank(a.category) < TextRank(b.category)
    \/ a.category = b.category /\ TextRank(a.subcategory) < TextRank(b.subcategory)

RECURSIVE InsertPair(_, _)
InsertPair(sorted, x) ==
    IF sorted = <<>> THEN <<x>>
    ELSE IF PairBefore(x, Head(sorted)) THEN <<x>> \o sorted
    ELSE <<Head(sorted)>> \o InsertPair(Tail(sorted), x)

\* the pairs written in the order they were gathered
UnsortedPairs(cats) == cats

\* sorted(self.categories, key=...): a stable sort
RECURSIVE SortedPairs(_)
SortedPairs(cats) ==
    IF cats = <<>> THEN <<>>
    ELSE InsertPair(SortedPairs(SubSeq(cats, 1, Len(cats) - 1)), cats[Len(cats)])

\* a record whose city is empty counted as no record
TruthyWithCity(info) == info # None /\ info.city # <<>>

\* `if company_info:` of line 520: None is false, a dict with keys is true
Truthy(info) == info # None

\* the events of the trace of scrape: link is the position of the link in
\* the returned list of extract_company_links
FetchEvent(i) == [ev |-> "fetch", link |-> i]

EndEvent(i) == [ev |-> "end", link |-> i]

DelayEvent(i) == [ev |-> "sleep", link |-> i]

\* the loop going to its next turn without the delay
NoDelay(i) == <<>>

\* line 529: time.sleep(2) at the end of every turn of the loop
DelayAfterFetch(i) == <<DelayEvent(i)>>

\* a link whose page failed to load taken again
RetryFailed(i, info) == IF info = None THEN i ELSE i + 1

\* line 510: enumerate moves to the next link whatever the turn gave
NextIdx(i, info) == i + 1

\* the record built with category and subcategory exchanged
NewCompanyInfoSwapped(url, category, subcategory) ==
    [category |-> subcategory, subcategory |-> category,
     city |-> <<>>, state |-> <<>>, url |-> url]

\* lines 236-244: company_info as extract_company_info first builds it
NewCompanyInfo(url, category, subcategory) ==
    [category |-> category, subcategory |-> subcategory,
     city |-> <<>>, state |-> <<>>, url |-> url]

\* the company pages visited even in categories-only mode
AfterCategoriesSavedScrapes(jgc) == "loop"

\* lines 499-506: `return` (through the finally clause) when
\* just_gather_categories is set, the loop of line 510 otherwise
AfterCategoriesSaved(jgc) == IF jgc THEN "close" ELSE "loop"

\* the return on a main page that failed to load leaving scrape at once
AfterMainPageFailureLeaves == "done"

\* lines 457-459: the return is inside the try of line 451, whose finally
\* clause runs
AfterMainPageFailure == "close"

\* lines 539-555: save_to_csv writes nothing when self.companies is empty
SaveToCsv(file, comps) ==
    IF comps = <<>> THEN file ELSE [written |-> TRUE, rows |-> comps]

\* lines 644-646, 650-651 and 658-659: the save is skipped in categories-only mode
SaveUnlessCategoriesOnly(file, comps, jgc) ==
    IF jgc THEN file ELSE SaveToCsv(file, comps)

\* lines 60-67: close_driver calls quit() when self.driver is set
CloseDriverState(d) == IF d \in {"started", "open"} THEN "closed" ELSE d

\* the positions of scrape's second try at which it waits in a call of the
\* driver or in time.sleep and a KeyboardInterrupt leaves it (only bare
\* except clauses catch a KeyboardInterrupt, `except Exception` does not)
Interruptible ==
    \/ pc \in {"main_page", "loop", "company", "sleep"}
    \/ pc = "links" /\ pcL \in {"start", "process", "fallback", "dedupe"}

\* where an exception that left scrape goes: the except clauses of
\* __main__ exist only when the module runs as a script
AfterScrapeRaised(script, clause) == IF script THEN clause ELSE "propagated"

Init ==
    /\ LinksIdle
    /\ LocIdle
    /\ GatherIdle
    /\ pc = "setup"
    /\ as_script \in BOOLEAN
    /\ just_gather_categories \in BOOLEAN
    /\ driver = "none"
    /\ idx = 0
    /\ company_info = None
    /\ companies = <<>>
    /\ errors = <<>>
    /\ categories = <<>>
    /\ categories_file = <<>>
    /\ raising = FALSE
    /\ trace = <<>>
    /\ companies_file = NoFile
    /\ handler = "none"
    /\ interrupts = 0

\* lines 445-446
SetupDriver ==
    /\ pc = "setup"
    /\ driver' = "open"
    /\ pc' = "main_page"
    /\ UNCHANGED <<as_script, just_gather_categories, idx, company_info, companies, errors,
                   categories, categories_file, raising, linkVars, locVars, gatherVars, mainVars>>

\* lines 447-449 and 56-58: setup_driver raises, before or after the browser
\* was started at line 53; scrape returns before its second try
SetupDriverFails ==
    /\ pc = "setup"
    /\ driver' \in {"none", "started"}
    /\ pc' = "done"
    /\ UNCHANGED <<as_script, just_gather_categories, idx, company_info, companies,
                   errors, categories, categories_file, raising, linkVars, locVars, gatherVars,
                   mainVars>>

\* a KeyboardInterrupt inside setup_driver: neither line 56 nor line 447
\* catches it and the finally clause of line 536 is not yet in force
InterruptInSetup ==
    /\ pc = "setup"
    /\ interrupts < MaxInterrupts
    /\ interrupts' = interrupts + 1
    /\ driver' \in {"none", "started"}
    /\ raising' = TRUE
    /\ pc' = AfterScrapeRaised(as_script, "interrupt_handler")
    /\ UNCHANGED <<as_script, just_gather_categories, idx, company_info, companies,
                   errors, categories, categories_file, linkVars, locVars, gatherVars,
                   trace, companies_file, handler>>

\* lines 453-473: the main page loads and extract_company_links is entered
LoadMainPage ==
    /\ pc = "main_page"
    /\ \E d \in PipelineDoms : dom' = d
    /\ pcL' = "start"
    /\ pc' = "links"
    /\ UNCHANGED <<elements, company_links, unique_links, degraded, locVars, runVarsButPc,
                   gatherVars, mainVars>>

\* lines 455-459: get_page_soup returns None for the main page
MainPageFails ==
    /\ pc = "main_page"
    /\ errors' = Append(errors, [url |-> main_url])
    /\ pc' = AfterMainPageFailure
    /\ UNCHANGED <<as_script, just_gather_categories, driver, idx, company_info, companies,
                   categories, categories_file, raising, linkVars, locVars, gatherVars, mainVars>>

\* lines 462-465: os.makedirs or open raises OSError while the page source
\* is saved; nothing inside scrape catches it
DebugPageFails ==
    /\ pc = "main_page"
    /\ raising' = TRUE
    /\ pc' = "close"
    /\ UNCHANGED <<as_script, just_gather_categories, driver, idx, company_info, companies,
                   errors, categories, categories_file, linkVars, locVars, gatherVars, mainVars>>

\* lines 201-217: a KeyboardInterrupt inside the link-only scan is caught by
\* the bare except of line 216 (the scan ends) or of line 214 (the link
\* being read is skipped); extract_company_links goes on
InterruptAbsorbedInFallback ==
    /\ pc = "links"
    /\ pcL = "fallback"
    /\ interrupts < MaxInterrupts
    /\ interrupts' = interrupts + 1
    /\ \/ /\ pcL' = AfterScanFailure
          /\ company_links' = company_links
       \/ /\ pcL' = "dedupe"
          /\ \E stale \in SUBSET (1..Len(dom)) \ {{}} :
                company_links' = FallbackLinks(dom, stale)
    /\ UNCHANGED <<dom, elements, unique_links, degraded, locVars, runVars, gatherVars,
                   trace, companies_file, handler>>

\* lines 476-479: extract_company_links returned no link
NoLinksFound ==
    /\ pc = "links"
    /\ pcL = "done"
    /\ unique_links = <<>>
    /\ pcL' = "idle"
    /\ pc' = "close"
    /\ UNCHANGED <<dom, elements, company_links, unique_links, degraded, locVars, runVarsButPc,
                   gatherVars, mainVars>>

\* lines 481-492
GatherCategories ==
    /\ pc = "links"
    /\ pcL = "done"
    /\ unique_links # <<>>
    /\ categories' = categories \o GatherPairs(unique_links, {})
    /\ pcL' = "idle"
    /\ pc' = "display"
    /\ UNCHANGED <<dom, elements, company_links, unique_links, degraded, locVars,
                   as_script, just_gather_categories, driver, idx, company_info, companies,
                   errors, categories_file, raising, gatherVars, mainVars>>

\* lines 495-496 and, when just_gather_categories is set, 499-503
SaveCategories ==
    /\ pc = "display"
    /\ as_script
    /\ categories_file' = IF categories = <<>> THEN categories_file
                          ELSE SortedPairs(categories)
    /\ pc' = AfterCategoriesSaved(just_gather_categories)
    /\ idx' = IF pc' = "loop" THEN 1 ELSE idx
    /\ UNCHANGED <<as_script, just_gather_categories, driver, company_info, companies, errors,
                   categories, raising, linkVars, locVars, gatherVars, mainVars>>

\* line 495 when the name `scraper` is not bound: NameError
DisplayFails ==
    /\ pc = "display"
    /\ ~as_script
    /\ raising' = TRUE
    /\ pc' = "close"
    /\ UNCHANGED <<as_script, just_gather_categories, driver, idx, company_info, companies,
                   errors, categories, categories_file, linkVars, locVars, gatherVars, mainVars>>

\* line 510 with a link left, 518 and 232: the company page loads
StartCompany ==
    /\ pc = "loop"
    /\ idx <= Len(unique_links)
    /\ \E p \in PipelinePages : page' = p
    /\ pcI' = "find"
    /\ location_headers' = <<>>
    /\ examined' = <<>>
    /\ scanned' = FALSE
    /\ city' = <<>>
    /\ state' = <<>>
    /\ location_text' = <<>>
    /\ trace' = Append(trace, FetchEvent(idx))
    /\ pc' = "company"
    /\ UNCHANGED <<linkVars, runVarsButPc, gatherVars, companies_file, handler, interrupts>>

\* the loop left when a company page fails to load
AfterPageFailureAborts == "close"

\* lines 232-234: extract_company_info returns None to line 518
AfterPageFailure == "append"

\* lines 232-234 and 90-93: get_page_soup fails, extract_company_info returns None
CompanyPageFails ==
    /\ pc = "loop"
    /\ idx <= Len(unique_links)
    /\ errors' = Append(errors, [url |-> unique_links[idx].url])
    /\ company_info' = None
    /\ page' = NoPage
    /\ trace' = trace \o <<FetchEvent(idx), EndEvent(idx)>>
    /\ pc' = AfterPageFailure
    /\ UNCHANGED <<pcI, location_headers, examined, scanned, city, state, location_text,
                   as_script, just_gather_categories, driver, idx, companies, categories,
                   categories_file, raising, linkVars, gatherVars, companies_file, handler,
                   interrupts>>

\* lines 254-259: a KeyboardInterrupt while the driver looks up the h1
\* elements is caught by the bare except of line 258; the name stays empty
\* and extract_company_info goes on
InterruptAbsorbedInNameLookup ==
    /\ pc = "company"
    /\ pcI = "find"
    /\ interrupts < MaxInterrupts
    /\ interrupts' = interrupts + 1
    /\ UNCHANGED <<linkVars, locVars, runVars, gatherVars, trace, companies_file, handler>>

\* lines 402-437: a KeyboardInterrupt inside the full-text scan is caught by
\* the bare except of line 436; extract_company_info goes on to its return
InterruptAbsorbedInFullText ==
    /\ pc = "company"
    /\ pcI = "fulltext"
    /\ FullTextRuns(location_text)
    /\ interrupts < MaxInterrupts
    /\ interrupts' = interrupts + 1
    /\ scanned' = TRUE
    /\ pcI' = "return"
    /\ UNCHANGED <<page, location_headers, examined, city, state, location_text, linkVars,
                   runVars, gatherVars, trace, companies_file, handler>>

\* line 439: extract_company_info returns its record
ReturnCompanyInfo ==
    /\ pc = "company"
    /\ pcI = "return"
    /\ company_info' = [NewCompanyInfo(unique_links[idx].url, unique_links[idx].category,
                                       unique_links[idx].subcategory)
                          EXCEPT !.city = city, !.state = state]
    /\ pcI' = "idle"
    /\ trace' = Append(trace, EndEvent(idx))
    /\ pc' = "append"
    /\ UNCHANGED <<page, location_headers, examined, scanned, city, state, location_text,
                   as_script, just_gather_categories, driver, idx, companies, errors,
                   categories, categories_file, raising, linkVars, gatherVars, companies_file,
                   handler, interrupts>>

\* lines 520-526
AppendCompany ==
    /\ pc = "append"
    /\ companies' = IF Truthy(company_info) THEN Append(companies, company_info)
                    ELSE companies
    /\ pc' = "sleep"
    /\ UNCHANGED <<as_script, just_gather_categories, driver, idx, company_info, errors,
                   categories, categories_file, raising, linkVars, locVars, gatherVars, mainVars>>

\* line 529 and the next turn of the loop
Sleep ==
    /\ pc = "sleep"
    /\ trace' = trace \o DelayAfterFetch(idx)
    /\ idx' = NextIdx(idx, company_info)
    /\ pc' = "loop"
    /\ UNCHANGED <<as_script, just_gather_categories, driver, company_info, companies, errors,
                   categories, categories_file, raising, linkVars, locVars, gatherVars,
                   companies_file, handler, interrupts>>

\* lines 531-534: the loop is over
LoopEnds ==
    /\ pc = "loop"
    /\ idx > Len(unique_links)
    /\ pc' = "close"
    /\ UNCHANGED <<linkVars, locVars, runVarsButPc, gatherVars, mainVars>>

\* lines 536-537 and 60-67: the finally clause on a return or on an
\* exception of class Exception, which then reaches line 653 or the caller
CloseDriver ==
    /\ pc = "close"
    /\ driver' = CloseDriverState(driver)
    /\ pc' = IF raising THEN AfterScrapeRaised(as_script, "fatal_handler") ELSE "done"
    /\ UNCHANGED <<as_script, just_gather_categories, idx, company_info, companies, errors,
                   categories, categories_file, raising, linkVars, locVars, gatherVars, mainVars>>

\* lines 63-67: a KeyboardInterrupt inside driver.quit() is caught by the
\* bare except of line 66; scrape ends as if quit() had returned
InterruptAbsorbedInQuit ==
    /\ pc = "close"
    /\ interrupts < MaxInterrupts
    /\ interrupts' = interrupts + 1
    /\ driver' = CloseDriverState(driver)
    /\ pc' = IF raising THEN AfterScrapeRaised(as_script, "fatal_handler") ELSE "done"
    /\ UNCHANGED <<as_script, just_gather_categories, idx, company_info, companies, errors,
                   categories, categories_file, raising, linkVars, locVars, gatherVars,
                   trace, companies_file, handler>>

\* a KeyboardInterrupt inside the try of line 451 that no except clause
\* catches: it leaves scrape through the finally clause
KeyboardInterrupt ==
    /\ Interruptible
    /\ interrupts < MaxInterrupts
    /\ interrupts' = interrupts + 1
    /\ raising' = TRUE
    /\ pc' = "unwind"
    /\ UNCHANGED <<as_script, just_gather_categories, driver, idx, company_info, companies,
                   errors, categories, categories_file, linkVars, locVars, gatherVars,
                   trace, companies_file, handler>>

\* lines 536-537 while the KeyboardInterrupt propagates
UnwindCloseDriver ==
    /\ pc = "unwind"
    /\ driver' = CloseDriverState(driver)
    /\ pc' = AfterScrapeRaised(as_script, "interrupt_handler")
    /\ UNCHANGED <<as_script, just_gather_categories, idx, company_info, companies, errors,
                   categories, categories_file, raising, linkVars, locVars, gatherVars, mainVars>>

\* lines 643-646: scrape returned to __main__
SaveResults ==
    /\ pc = "done"
    /\ as_script
    /\ ~raising
    /\ companies_file' = SaveUnlessCategoriesOnly(companies_file, companies,
                                                  just_gather_categories)
    /\ pc' = "exit"
    /\ UNCHANGED <<as_script, just_gather_categories, driver, idx, company_info, companies,
                   errors, categories, categories_file, raising, linkVars, locVars, gatherVars,
                   trace, handler, interrupts>>

\* lines 647-652: the KeyboardInterrupt clause of __main__
InterruptHandler ==
    /\ pc = "interrupt_handler"
    /\ companies_file' = SaveUnlessCategoriesOnly(companies_file, companies,
                                                  just_gather_categories)
    /\ driver' = CloseDriverState(driver)
    /\ handler' = "interrupt"
    /\ raising' = FALSE
    /\ pc' = "exit"
    /\ UNCHANGED <<as_script, just_gather_categories, idx, company_info, companies, errors,
                   categories, categories_file, linkVars, locVars, gatherVars, trace,
                   interrupts>>

\* lines 653-660: the Exception clause of __main__
FatalHandler ==
    /\ pc = "fatal_handler"
    /\ companies_file' = SaveUnlessCategoriesOnly(companies_file, companies,
                                                  just_gather_categories)
    /\ driver' = CloseDriverState(driver)
    /\ handler' = "fatal"
    /\ raising' = FALSE
    /\ pc' = "exit"
    /\ UNCHANGED <<as_script, just_gather_categories, idx, company_info, companies, errors,
                   categories, categories_file, linkVars, locVars, gatherVars, trace,
                   interrupts>>

Next ==
    \/ SetupDriver
    \/ SetupDriverFails
    \/ InterruptInSetup
    \/ LoadMainPage
    \/ MainPageFails
    \/ DebugPageFails
    \/ pc = "links" /\ NextLinks
    \/ InterruptAbsorbedInFallback
    \/ NoLinksFound
    \/ GatherCategories
    \/ SaveCategories
    \/ DisplayFails
    \/ StartCompany
    \/ CompanyPageFails
    \/ pc = "company" /\ NextLoc
    \/ InterruptAbsorbedInNameLookup
    \/ InterruptAbsorbedInFullText
    \/ ReturnCompanyInfo
    \/ AppendCompany
    \/ Sleep
    \/ LoopEnds
    \/ CloseDriver
    \/ InterruptAbsorbedInQuit
    \/ KeyboardInterrupt
    \/ UnwindCloseDriver
    \/ SaveResults
    \/ InterruptHandler
    \/ FatalHandler

Spec == Init /\ [][Next]_vars

-----------------------------------------------------------------------------
(* The model reply of the gatherer (src/israeli_companies_gatherer.py) as   *)
(* text: a sequence of tokens, a JSON string literal being one token that   *)
(* carries its quotes                                                       *)

\* the token of the three backquotes that open and close a fenced block
Fence == "<fence>"

\* the seven keys of lines 91-97
Schema ==
    {"companyName", "website", "headquarters", "yearFounded", "coreProducts",
     "innovations", "notes"}

\* the string literals of the replies with the Python str they decode to
StringLiterals ==
    << <<"\"companyName\"", "companyName">>,
       <<"\"website\"", "website">>,
       <<"\"headquarters\"", "headquarters">>,
       <<"\"yearFounded\"", "yearFounded">>,
       <<"\"coreProducts\"", "coreProducts">>,
       <<"\"innovations\"", "innovations">>,
       <<"\"notes\"", "notes">>,
       <<"\"extra\"", "extra">>,
       <<"\"Acme\"", "Acme">>,
       <<"\"Beta\"", "Beta">>,
       <<"\"acme.co\"", "acme.co">>,
       <<"\"magnets\"", "magnets">> >>

StringToks == { StringLiterals[i][1] : i \in 1..Len(StringLiterals) }

\* the str a string literal decodes to
Unquote(t) ==
    LET i == CHOOSE k \in 1..Len(StringLiterals) : StringLiterals[k][1] = t
    IN StringLiterals[i][2]

NumberToks == {"1", "2015"}

\* JSON values as Python objects
JStr(v) == [str |-> v]
JNum(t) == [num |-> t]
JNull == [null |-> TRUE]
JList(items) == [list |-> items]
JDict(d) == [dict |-> d]

\* the '' of company.get(key, '')
EmptyStr == JStr("")

IsList(v) == DOMAIN v = {"list"}
IsDict(v) == DOMAIN v = {"dict"}

\* the result of a failed parse
ParseError == [ok |-> FALSE]

Parsed(v, next) == [ok |-> TRUE, val |-> v, next |-> next]

\* the first position at or after i that holds no whitespace
RECURSIVE SkipWS(_, _)
SkipWS(ts, i) ==
    IF i <= Len(ts) /\ ts[i] \in WS THEN SkipWS(ts, i + 1) ELSE i

\* d with key k set to v: a later duplicate key wins
DictPut(d, k, v) == [x \in DOMAIN d \cup {k} |-> IF x = k THEN v ELSE d[x]]

EmptyDict == [x \in {} |-> JNull]

\* json's scanner: one value starting at position i (no leading whitespace)
RECURSIVE ParseValue(_, _)
RECURSIVE ParseItems(_, _, _)
RECURSIVE ParseMembers(_, _, _)
ParseValue(ts, i) ==
    IF i > Len(ts) THEN ParseError
    ELSE IF ts[i] \in StringToks THEN Parsed(JStr(Unquote(ts[i])), i + 1)
    ELSE IF ts[i] \in NumberToks THEN Parsed(JNum(ts[i]), i + 1)
    ELSE IF ts[i] = "null" THEN Parsed(JNull, i + 1)
    ELSE IF ts[i] = "[" THEN
        LET j == SkipWS(ts, i + 1)
        IN IF j <= Len(ts) /\ ts[j] = "]" THEN Parsed(JList(<<>>), j + 1)
           ELSE ParseItems(ts, j, <<>>)
    ELSE IF ts[i] = "{" THEN
        LET j == SkipWS(ts, i + 1)
        IN IF j <= Len(ts) /\ ts[j] = "}" THEN Parsed(JDict(EmptyDict), j + 1)
           ELSE ParseMembers(ts, j, EmptyDict)
    ELSE ParseError

\* the items of an array from position i, acc being those already read
ParseItems(ts, i, acc) ==
    LET r == ParseValue(ts, i)
    IN IF ~r.ok THEN ParseError
       ELSE LET j == SkipWS(ts, r.next)
            IN IF j > Len(ts) THEN ParseError
               ELSE IF ts[j] = "]" THEN Parsed(JList(Append(acc, r.val)), j + 1)
               ELSE IF ts[j] = "," THEN ParseItems(ts, SkipWS(ts, j + 1), Append(acc, r.val))
               ELSE ParseError

\* the members of an object from position i, acc being those already read
ParseMembers(ts, i, acc) ==
    IF i > Len(ts) \/ ts[i] \notin StringToks THEN ParseError
    ELSE LET c == SkipWS(ts, i + 1)
         IN IF c > Len(ts) \/ ts[c] # ":" THEN ParseError
            ELSE LET r == ParseValue(ts, SkipWS(ts, c + 1))
                 IN IF ~r.ok THEN ParseError
                    ELSE LET j == SkipWS(ts, r.next)
                             d == DictPut(acc, Unquote(ts[i]), r.val)
                         IN IF j > Len(ts) THEN ParseError
                            ELSE IF ts[j] = "}" THEN Parsed(JDict(d), j + 1)
                            ELSE IF ts[j] = "," THEN ParseMembers(ts, SkipWS(ts, j + 1), d)
                            ELSE ParseError

\* json.loads: one value, whitespace around it, nothing else
JsonLoads(ts) ==
    LET r == ParseValue(ts, SkipWS(ts, 1))
    IN IF r.ok /\ SkipWS(ts, r.next) > Len(ts) THEN r ELSE ParseError

\* str.find: the first position of token t, 0 when there is none
Find(ts, t) ==
    LET I == { i \in 1..Len(ts) : ts[i] = t }
    IN IF I = {} THEN 0 ELSE CHOOSE i \in I : \A k \in I : i <= k

\* str.rfind: the last position of token t, 0 when there is none
RFind(ts, t) ==
    LET I == { i \in 1..Len(ts) : ts[i] = t }
    IN IF I = {} THEN 0 ELSE CHOOSE i \in I : \A k \in I : i >= k

\* the object kept with the keys it came with
RekeyKeepAll(d) == d

\* lines 90-98: one object re-keyed against the schema
Rekey(d) == [k \in Schema |-> IF k \in DOMAIN d THEN d[k] ELSE EmptyStr]

\* lines 88-98: the dicts of the list, re-keyed, in order
RECURSIVE RekeyAll(_)
RekeyAll(items) ==
    IF items = <<>> THEN <<>>
    ELSE IF IsDict(Head(items)) THEN <<Rekey(Head(items).dict)>> \o RekeyAll(Tail(items))
         ELSE RekeyAll(Tail(items))

\* lines 86-109 for a parsed value
RecordsOf(v) ==
    IF IsList(v) THEN RekeyAll(v.list)
    ELSE IF IsDict(v) THEN <<Rekey(v.dict)>>
    ELSE <<>>

\* json_pattern of line 115 tried at position i (a fence, an optional
\* json tag, whitespace, the shortest bracketed group that is followed by
\* whitespace and a fence): the positions of the group, <<0, 0>> when the
\* pattern does not match there
BlockAt(ts, i) ==
    IF i > Len(ts) \/ ts[i] # Fence THEN <<0, 0>>
    ELSE LET a == IF i + 1 <= Len(ts) /\ ts[i + 1] = "json" THEN i + 2 ELSE i + 1
             starts == { b \in {SkipWS(ts, a), SkipWS(ts, i + 1)} :
                           b <= Len(ts) /\ ts[b] = "[" }
             ends(b) == { e \in (b + 1)..Len(ts) :
                            /\ ts[e] = "]"
                            /\ \E f \in (e + 1)..Len(ts) :
                                 /\ ts[f] = Fence
                                 /\ \A k \in (e + 1)..(f - 1) : ts[k] \in WS }
             B == { b \in starts : ends(b) # {} }
         IN IF B = {} THEN <<0, 0>>
            ELSE LET b == CHOOSE x \in B : \A y \in B : x <= y
                     e == CHOOSE x \in ends(b) : \A y \in ends(b) : x <= y
                 IN <<b, e>>

\* re.findall(json_pattern, full_response, re.DOTALL)[0]; <<>> when no match
FirstBlock(ts) ==
    LET I == { i \in 1..Len(ts) : BlockAt(ts, i) # <<0, 0>> }
    IN IF I = {} THEN <<>>
       ELSE LET i == CHOOSE x \in I : \A y \in I : x <= y
            IN SubSeq(ts, BlockAt(ts, i)[1], BlockAt(ts, i)[2])

\* lines 114-123: the records of the first fenced array, taken as they are
BlockRecords(ts) ==
    LET m == FirstBlock(ts)
        r == JsonLoads(m)
    IN IF m # <<>> /\ r.ok /\ IsList(r.val) THEN r.val.list ELSE <<>>

\* the span of line 83 exists
HasSpan(ts) == Find(ts, "[") # 0 /\ RFind(ts, "]") + 1 > Find(ts, "[")

\* the fenced blocks searched also after a failed parse of the span
ExtractWithBlockRetry(ts) ==
    IF HasSpan(ts) /\ JsonLoads(SubSeq(ts, Find(ts, "["), RFind(ts, "]"))).ok
      THEN RecordsOf(JsonLoads(SubSeq(ts, Find(ts, "["), RFind(ts, "]"))).val)
      ELSE BlockRecords(ts)

\* lines 76-126: the companies extracted from full_response
ExtractRecords(ts) ==
    IF HasSpan(ts)
      THEN LET r == JsonLoads(SubSeq(ts, Find(ts, "["), RFind(ts, "]")))
           IN IF r.ok THEN RecordsOf(r.val) ELSE <<>>
      ELSE BlockRecords(ts)

-----------------------------------------------------------------------------
(* Replies the model service can give *)

Obj1 ==
    <<"{", "\"companyName\"", ":", " ", "\"Acme\"", ",", " ",
      "\"website\"", ":", " ", "\"acme.co\"", "}">>

Obj2 ==
    <<"{", "\n", "\"companyName\"", ":", "\"Beta\"", ",", "\n",
      "\"extra\"", ":", "\"Acme\"", ",", "\n",
      "\"yearFounded\"", ":", "2015", ",", "\n",
      "\"notes\"", ":", "null", "\n", "}">>

ObjWithList ==
    <<"{", "\"companyName\"", ":", "\"Acme\"", ",",
      "\"coreProducts\"", ":", "[", "\"magnets\"", "]", "}">>

ObjTwice ==
    <<"{", "\"companyName\"", ":", "\"Acme\"", ",",
      "\"companyName\"", ":", "\"Beta\"", "}">>

ReplyBodies ==
    { <<"[", "]">>,
      <<"[">> \o Obj1 \o <<"]">>,
      <<"[", "\n">> \o Obj1 \o <<",", "\n">> \o Obj2 \o <<"\n", "]">>,
      <<"[">> \o ObjWithList \o <<",">> \o ObjTwice \o <<"]">>,
      Obj1,
      ObjWithList,
      <<"[">> \o Obj1 \o <<",", "]">>,
      <<"[">> \o Obj1,
      <<"[", "\"Acme\"", ",">> \o Obj1 \o <<"]">>,
      <<"No", " ", "companies", " ", "found">> }

ReplyPrefixes ==
    { <<>>,
      <<"Here", " ", "they", " ", "are", ":", "\n">>,
      <<"See", " ", "[", "1", "]", ":", "\n">>,
      <<Fence, "json", "\n">>,
      <<Fence, "\n">>,
      <<"1", "]", " ">> }

ReplySuffixes ==
    { <<>>,
      <<"\n", Fence>>,
      <<"\n", Fence, "\n", "Sources", ":", " ", "[", "1", "]">>,
      <<"\n", "thanks">> }

Replies == { p \o b \o x : p \in ReplyPrefixes, b \in ReplyBodies, x \in ReplySuffixes }

-----------------------------------------------------------------------------
(* The gatherer's __main__ and gather_israeli_companies_for_all_subcategories *)
(* as a state machine                                                       *)

Row(c, sub) == [category |-> c, subcategory |-> sub]

\* the rows a categories file can hold
RowPool == { Row(<<"A">>, <<"S">>), Row(<<"B">>, <<"T">>) }

\* the categories files: none, one whose header lacks a column, and those
\* with up to MaxRows rows
GatherFiles ==
    { MissingFile, [kind |-> "no_column", rows |-> <<Row(<<"A">>, <<"S">>)>>] }
    \cup { [kind |-> "rows", rows |-> rs] : rs \in UNION { [1..n -> RowPool] : n \in 0..MaxRows } }

Limit(n) == [given |-> TRUE, n |-> n]

Limits == {NoLimit} \cup { Limit(n) : n \in 0..(MaxRows + 1) }

\* the rows of the file whatever became of reading it
LoadedRowsAnyway(file) == file.rows

\* load_categories_from_csv: lines 134-150; a missing file and a row
\* without the column both end in the list read so far
LoadedRows(file) == IF file.kind = "rows" THEN file.rows ELSE <<>>

\* categories[:limit] for limit >= 0
FirstRows(cats, n) == SubSeq(cats, 1, IF n < Len(cats) THEN n ELSE Len(cats))

\* the limit ignored
ApplyNoLimit(cats, lim) == cats

\* lines 166-169
ApplyLimit(cats, lim) == IF lim.given THEN FirstRows(cats, lim.n) ELSE cats

\* lines 188-191 for the companies of one row
RECURSIVE Tagged(_, _)
Tagged(cs, row) ==
    IF cs = <<>> THEN <<>>
    ELSE <<[category |-> row.category, subcategory |-> row.subcategory, fields |-> Head(cs)]>>
         \o Tagged(Tail(cs), row)

\* the tags of the first row of the file put on every record
TaggedWithFirstRow(cs, row) == Tagged(cs, gcategories[1])

\* lines 188-191
TagCompanies(cs, row) == Tagged(cs, row)

\* line 162: `if not categories`
EmptyReturns(cats) == cats = <<>>

\* a decoding error leaving the query as an exception
AfterDecodeErrorRaises == "raised"

\* lines 110-112 and 125-126: the JSONDecodeError is logged, the query goes
\* on to its return
AfterDecodeError == "tag"

\* json.loads of line 86 raises JSONDecodeError
DecodeFails(ts) ==
    HasSpan(ts) /\ ~JsonLoads(SubSeq(ts, Find(ts, "["), RFind(ts, "]"))).ok

QueryEvent(i, result) == [ev |-> "query", row |-> i, result |-> result]

SleepEvent(i) == [ev |-> "sleep", row |-> i, result |-> <<>>]

InitGather ==
    /\ LinksIdle
    /\ LocIdle
    /\ RunIdle
    /\ pcG = "load"
    /\ categories_csv \in GatherFiles
    /\ limit \in Limits
    /\ gcategories = <<>>
    /\ gidx = 0
    /\ full_response = <<>>
    /\ gcompanies = <<>>
    /\ israeli_companies = <<>>
    /\ israeli_csv = NoFile
    /\ gtrace = <<>>

\* lines 160-175: load the categories, return [] on none, apply the limit
LoadCategories ==
    /\ pcG = "load"
    /\ LET cats == LoadedRows(categories_csv)
       IN IF EmptyReturns(cats)
            THEN /\ gcategories' = cats
                 /\ gidx' = gidx
                 /\ pcG' = "returned"
            ELSE /\ gcategories' = ApplyLimit(cats, limit)
                 /\ gidx' = 1
                 /\ pcG' = IF ApplyLimit(cats, limit) = <<>> THEN "returned" ELSE "query"
    /\ UNCHANGED <<categories_csv, limit, full_response, gcompanies, israeli_companies,
                   israeli_csv, gtrace, linkVars, locVars, runVars, mainVars>>

\* lines 185 and 47-126: the service replies and the records are extracted
QueryReplies ==
    /\ pcG = "query"
    /\ \E reply \in Replies :
          /\ full_response' = reply
          /\ gcompanies' = ExtractRecords(reply)
          /\ gtrace' = Append(gtrace, QueryEvent(gidx, ExtractRecords(reply)))
          /\ pcG' = IF DecodeFails(reply) THEN AfterDecodeError ELSE "tag"
    /\ UNCHANGED <<categories_csv, limit, gcategories, gidx, israeli_companies, israeli_csv,
                   linkVars, locVars, runVars, mainVars>>

\* lines 128-132: the call or the stream raises, the query returns []
QueryRaises ==
    /\ pcG = "query"
    /\ full_response' = <<>>
    /\ gcompanies' = <<>>
    /\ gtrace' = Append(gtrace, QueryEvent(gidx, <<>>))
    /\ pcG' = "tag"
    /\ UNCHANGED <<categories_csv, limit, gcategories, gidx, israeli_companies, israeli_csv,
                   linkVars, locVars, runVars, mainVars>>

\* lines 188-194: tag and keep the companies of the row; the locals of the
\* query are gone
KeepCompanies ==
    /\ pcG = "tag"
    /\ israeli_companies' = israeli_companies \o TagCompanies(gcompanies, gcategories[gidx])
    /\ full_response' = <<>>
    /\ gcompanies' = <<>>
    /\ pcG' = IF gidx < Len(gcategories) THEN "sleep" ELSE "returned"
    /\ UNCHANGED <<categories_csv, limit, gcategories, gidx, israeli_csv, gtrace,
                   linkVars, locVars, runVars, mainVars>>

\* line 195 and the next turn of the loop
SleepBetweenQueries ==
    /\ pcG = "sleep"
    /\ gtrace' = Append(gtrace, SleepEvent(gidx))
    /\ gidx' = gidx + 1
    /\ pcG' = "query"
    /\ UNCHANGED <<categories_csv, limit, gcategories, full_response, gcompanies,
                   israeli_companies, israeli_csv, linkVars, locVars, runVars, mainVars>>

\* lines 240 and 203-220: save_israeli_companies_to_csv
SaveIsraeliCompanies ==
    /\ pcG = "returned"
    /\ israeli_csv' = IF israeli_companies = <<>> THEN israeli_csv
                      ELSE [written |-> TRUE, rows |-> israeli_companies]
    /\ pcG' = "done"
    /\ UNCHANGED <<categories_csv, limit, gcategories, gidx, full_response, gcompanies,
                   israeli_companies, gtrace, linkVars, locVars, runVars, mainVars>>

\* lines 241-242: KeyboardInterrupt reaches the handler of __main__, which
\* prints a message; the list built by the gather call is lost with its frame
InterruptGather ==
    /\ pcG \in {"load", "query", "tag", "sleep", "returned"}
    /\ pcG' = "interrupted"
    /\ UNCHANGED <<categories_csv, limit, gcategories, gidx, full_response, gcompanies,
                   israeli_companies, israeli_csv, gtrace, linkVars, locVars, runVars, mainVars>>

NextGather ==
    \/ LoadCategories
    \/ QueryReplies
    \/ QueryRaises
    \/ KeepCompanies
    \/ SleepBetweenQueries
    \/ SaveIsraeliCompanies
    \/ InterruptGather

SpecGather == InitGather /\ [][NextGather]_vars

-----------------------------------------------------------------------------
(* Either program runs: the scraper or the gatherer *)

InitPipelines == Init \/ InitGather

NextPipelines == Next \/ NextGather

SpecPipelines == InitPipelines /\ [][NextPipelines]_vars

-----------------------------------------------------------------------------
(* Claims about extract_company_links *)

ord == Ordered(dom)

Returned == pcL = "done"

\* positions of the marker sequence whose link the attributed scan appends
EmitPositions ==
    { i \in 1..Len(ord) :
        /\ ord[i].type = "link"
        /\ Contains(ord[i].href, OrgMarker)
        /\ ord[i].text # <<>>
        /\ HrefUsable(ord[i].href) }

UrlPositions(url) == { i \in EmitPositions : FullUrl(ord[i].href) = url }

FirstPos(url) == CHOOSE i \in UrlPositions(url) : \A j \in UrlPositions(url) : i <= j

\* the text of the nearest marker of type ty strictly before position i
NearestText(i, ty) ==
    LET J == { j \in 1..(i - 1) : ord[j].type = ty }
    IN IF J = {} THEN Unknown
       ELSE ord[CHOOSE j \in J : \A k \in J : k <= j].text

\* C1: every link emitted by the attributed scan carries the text of the
\* nearest Category marker strictly before it as category and the text of
\* the nearest Subcategory marker strictly before it as subcategory, and
\* "Unknown" for a level with no preceding marker.
C1_NearestPrecedingMarkers ==
    (Returned /\ ~degraded) =>
        \A k \in 1..Len(unique_links) :
            LET e == unique_links[k] IN
            /\ UrlPositions(e.url) # {}
            /\ e.category = NearestText(FirstPos(e.url), "category")
            /\ e.subcategory = NearestText(FirstPos(e.url), "subcategory")

\* C2: a link that follows a Category marker with no Subcategory marker
\* between that marker and the link is emitted with subcategory "Unknown".
C2_CategoryResetsSubcategory ==
    (Returned /\ ~degraded) =>
        \A k \in 1..Len(unique_links) :
            LET e == unique_links[k]
                i == FirstPos(e.url)
            IN  UrlPositions(e.url) # {} =>
                ((\E c \in 1..(i - 1) :
                      /\ ord[c].type = "category"
                      /\ \A j \in (c + 1)..(i - 1) : ord[j].type # "subcategory")
                  => e.subcategory = Unknown)

FirstIndexOf(links, url) ==
    CHOOSE i \in 1..Len(links) :
        links[i].url = url /\ \A j \in 1..(i - 1) : links[j].url # url

\* C3: the returned list has no two entries with the same url, holds for
\* each url the entry of its first occurrence, keeps document order, covers
\* every url found, and deduplicating it again changes nothing.
C3_DedupKeepsFirst ==
    Returned =>
        /\ \A i, j \in 1..Len(unique_links) :
               unique_links[i].url = unique_links[j].url => i = j
        /\ \A k \in 1..Len(unique_links) :
               /\ \E i \in 1..Len(company_links) : company_links[i].url = unique_links[k].url
               /\ unique_links[k] = company_links[FirstIndexOf(company_links, unique_links[k].url)]
        /\ \A i, j \in 1..Len(unique_links) :
               i < j => FirstIndexOf(company_links, unique_links[i].url)
                          < FirstIndexOf(company_links, unique_links[j].url)
        /\ \A i \in 1..Len(company_links) :
               \E k \in 1..Len(unique_links) : unique_links[k].url = company_links[i].url
        /\ RemoveDuplicates(unique_links) = unique_links

C3_Witness ==
    /\ Returned
    /\ Len(unique_links) < Len(company_links)
    /\ \E i, j \in 1..Len(company_links) :
          /\ i < j
          /\ company_links[i].url = company_links[j].url
          /\ company_links[i].category # company_links[j].category
          /\ company_links[i].link_text # company_links[j].link_text

Anchors == { i \in 1..Len(dom) : dom[i].kind = "a" }

HasEntry(urls, text) ==
    \E k \in 1..Len(unique_links) :
        unique_links[k].url \in urls /\ unique_links[k].link_text = text

\* C4 as stated: the path marker and a non-empty trimmed text alone decide
\* whether a link is emitted.
C4_MarkerAndTextDecide ==
    (Returned /\ ~degraded) =>
        \A i \in Anchors :
            LET href == dom[i].href
                urls == {href, base_url \o href, ResolvedHref(href)}
            IN  (Contains(href, OrgMarker) /\ Trim(dom[i].text) # <<>>)
                    <=> (\E k \in 1..Len(unique_links) : unique_links[k].url \in urls)

\* C4 amended: a link is emitted (up to URL deduplication) exactly when its
\* href contains the path marker, begins with "/" or "http", and its trimmed
\* text is non-empty; every emitted entry comes from such a link.
C4_MarkerPrefixAndTextDecide ==
    (Returned /\ ~degraded) =>
        /\ \A i \in Anchors :
              LET href == dom[i].href
                  ok == /\ Contains(href, OrgMarker)
                        /\ HrefUsable(href)
                        /\ Trim(dom[i].text) # <<>>
              IN  /\ ok => \E k \in 1..Len(unique_links) :
                               unique_links[k].url = FullUrl(href)
                  /\ ~ok => ~HasEntry({href, base_url \o href, ResolvedHref(href)} \
                                        { FullUrl(dom[j].href) : j \in
                                            { a \in Anchors : /\ Contains(dom[a].href, OrgMarker)
                                                              /\ HrefUsable(dom[a].href)
                                                              /\ Trim(dom[a].text) = Trim(dom[i].text) } },
                                      Trim(dom[i].text))
        /\ \A k \in 1..Len(unique_links) :
              \E i \in Anchors :
                  /\ Contains(dom[i].href, OrgMarker)
                  /\ HrefUsable(dom[i].href)
                  /\ Trim(dom[i].text) # <<>>
                  /\ unique_links[k].url = FullUrl(dom[i].href)
                  /\ unique_links[k].link_text = Trim(dom[i].text)

C4_Witness ==
    /\ Returned /\ ~degraded
    /\ unique_links # <<>>
    /\ \E i \in Anchors :
          /\ Contains(dom[i].href, OrgMarker)
          /\ Trim(dom[i].text) # <<>>
          /\ ~HrefUsable(dom[i].href)
    /\ \E i \in Anchors : Contains(dom[i].href, OrgMarker) /\ Trim(dom[i].text) = <<>>

\* C5: when marker collection fails the call still returns; the returned
\* list is deduplicated and every entry of it is Unknown/Unknown and comes
\* from an organization link of the page; the link-only scan failing, or
\* one link failing to be read, ends in a returned list as well.
C5_FallbackReturnsUnknown ==
    /\ pcL \in {"start", "process", "fallback", "dedupe", "done"}
    /\ (Returned /\ degraded) =>
          /\ \A i, j \in 1..Len(unique_links) :
                 unique_links[i].url = unique_links[j].url => i = j
          /\ \A k \in 1..Len(unique_links) :
                 /\ unique_links[k].category = Unknown
                 /\ unique_links[k].subcategory = Unknown
                 /\ \E i \in Anchors :
                        /\ Contains(dom[i].href, OrgMarker)
                        /\ unique_links[k].url = ResolvedHref(dom[i].href)
                        /\ unique_links[k].link_text = Trim(dom[i].text)

C5_Witness ==
    /\ Returned /\ degraded
    /\ unique_links # <<>>
    /\ \E i \in 1..Len(dom) : dom[i].kind = "h2-responsive"
    /\ Len(unique_links) < Cardinality({ i \in Anchors : Contains(dom[i].href, OrgMarker) })

-----------------------------------------------------------------------------
(* Claims about the location part of extract_company_info *)

Last(s) == s[Len(s)]

HasComma(s) == "," \in { s[i] : i \in 1..Len(s) }

LeftOfComma(s) == Trim(SubSeq(s, 1, FirstComma(s) - 1))

RightOfComma(s) == Trim(SubSeq(s, FirstComma(s) + 1, Len(s)))

\* the headers that passed the test of line 319, whose surroundings were
\* then read for a location
UsedAnchors ==
    { examined[k] : k \in { n \in 1..Len(examined) : HeaderPasses(page.blocks[examined[n]]) } }

\* C6: an element is used as a location anchor only if its trimmed text
\* equals "location" case-insensitively (and is shorter than 50
\* characters); an element whose text merely contains the word is never
\* used.
C6_AnchorTextIsLocation ==
    \A h \in UsedAnchors :
        /\ IsLocationWord(Trim(page.blocks[h].text))
        /\ CharLen(Trim(page.blocks[h].text)) < 50

LocatedByHeader == location_text # <<>>

C7_Order ==
    /\ examined = SubSeq(location_headers, 1, Len(examined))
    /\ \A i, j \in 1..Len(location_headers) :
           i < j => location_headers[i] < location_headers[j]
    /\ \A k \in 1..(Len(examined) - 1) : ~ExamineResult(page.blocks[examined[k]]).found
    /\ LocatedByHeader =>
           /\ examined # <<>>
           /\ ExamineResult(page.blocks[Last(examined)]).found
           /\ city = ExamineResult(page.blocks[Last(examined)]).city
           /\ state = ExamineResult(page.blocks[Last(examined)]).state
    /\ scanned => ~LocatedByHeader

C7_Step ==
    /\ LocatedByHeader => (examined' = examined /\ location_text' = location_text)
    /\ (city # <<>> \/ state # <<>>) => (city' = city /\ state' = state)
    /\ (scanned' /\ ~scanned) => (~LocatedByHeader /\ city = <<>> /\ state = <<>>)

\* C7: heading candidates are tried in document order, the first one that
\* yields a location fixes city and state, no later candidate is examined,
\* and the full-text scan runs only when the heading strategy yielded no
\* location, so it never overwrites a city or state already set.
C7_FirstSuccessWins == []C7_Order /\ [][C7_Step]_vars

C7_Witness ==
    /\ pcI = "return"
    /\ Len(location_headers) = 2
    /\ examined = <<location_headers[1]>>
    /\ LocatedByHeader
    /\ ExamineResult(page.blocks[location_headers[2]]).found
    /\ ExamineResult(page.blocks[location_headers[2]]).city # city
    /\ FullTextResult(page).found
    /\ FullTextResult(page).state # state

\* the text the location was extracted from
GatheredText ==
    IF LocatedByHeader THEN GatherCandidate(page.blocks[Last(examined)])
    ELSE LocationSection(PageText(page))

\* the rest of the line after position c of g, trimmed
RestOfLine(g, c) ==
    LET rest == SubSeq(g, c + 1, Len(g))
        ls == SplitLines(rest, <<>>)
    IN IF ls = <<>> THEN <<>> ELSE Trim(ls[1])

\* the region texts: what follows, up to the end of the line, a comma that
\* directly follows the extracted city
RegionTexts(g, c) ==
    { RestOfLine(g, i + Len(c) + 1) :
        i \in { n \in 0..(Len(g) - Len(c) - 1) :
                  SubSeq(g, n + 1, n + Len(c)) = c /\ g[n + Len(c) + 1] = "," } }

StateForRegion(region) ==
    IF region \in us_states_2 THEN region
    ELSE IF region \in us_state_map_keys THEN us_state_map(region)
    ELSE region

\* C8: for every extracted location, by either strategy, state is the
\* region text after the comma when that is a two-letter US state code,
\* the mapped code when it is a full state name of the lookup table
\* (one-word or multi-word), and the region text verbatim otherwise.
C8_RegionNormalised ==
    (pcI = "return" /\ city # <<>>) =>
        \E region \in RegionTexts(GatheredText, city) : state = StateForRegion(region)

\* the header examined last passed the test of line 319 and no pattern
\* matched the text gathered for it, which contains a comma
SplitCase ==
    /\ examined # <<>>
    /\ ~scanned
    /\ HeaderPasses(page.blocks[Last(examined)])
    /\ GatherCandidate(page.blocks[Last(examined)]) # <<>>
    /\ ~HeadingPatterns(GatherCandidate(page.blocks[Last(examined)]), 1).found
    /\ HasComma(GatherCandidate(page.blocks[Last(examined)]))

\* C9 as stated: in the heading-anchored strategy, when no pattern produced
\* a location and the gathered text contains a comma, city is the trimmed
\* part left of the first comma and state the trimmed right part verbatim.
C9_SplitVerbatim ==
    SplitCase =>
        /\ city = LeftOfComma(GatherCandidate(page.blocks[Last(examined)]))
        /\ state = RightOfComma(GatherCandidate(page.blocks[Last(examined)]))

SplitState(right) ==
    IF CharLen(right) = 2 /\ Upper(right) \in us_states_2 \cup {<<"DC">>} THEN Upper(right)
    ELSE IF right \in us_state_map_keys THEN us_state_map(right)
    ELSE right

\* C9 amended: in that case, when the trimmed left part is non-empty, city
\* is the trimmed left part and state is the trimmed right part, upper-cased
\* when it spells a two-letter state code or DC, mapped when it is a full
\* state name of the lookup table, and verbatim otherwise; when the left
\* part is empty nothing is set; and when a pattern produced the location
\* the split is not applied.
C9_SplitNormalised ==
    /\ SplitCase =>
          LET cand == GatherCandidate(page.blocks[Last(examined)])
          IN IF LeftOfComma(cand) = <<>>
               THEN city = <<>> /\ state = <<>> /\ location_text = <<>>
               ELSE /\ city = LeftOfComma(cand)
                    /\ state = SplitState(RightOfComma(cand))
    /\ (examined # <<>> /\ ~scanned /\ HeaderPasses(page.blocks[Last(examined)])
          /\ GatherCandidate(page.blocks[Last(examined)]) # <<>>
          /\ HeadingPatterns(GatherCandidate(page.blocks[Last(examined)]), 1).found) =>
          /\ city = HeadingPatterns(GatherCandidate(page.blocks[Last(examined)]), 1).city
          /\ state = HeadingPatterns(GatherCandidate(page.blocks[Last(examined)]), 1).state

C9_Witness ==
    /\ SplitCase
    /\ city = <<"New", " ", "York">>
    /\ state = <<"NY">>
    /\ state # RightOfComma(GatherCandidate(page.blocks[Last(examined)]))

-----------------------------------------------------------------------------
(* Claims about scrape *)

\* no header of the page yields a location and the full-text scan finds none
NeitherStrategyMatches(p) ==
    /\ \A i \in 1..Len(p.blocks) : ~ExamineResult(p.blocks[i]).found
    /\ ~FullTextResult(p).found

\* a company page is loaded and extract_company_info is at work on it or
\* has just returned
PageLoaded == pc \in {"company", "append"} /\ page # NoPage

C10_Returned ==
    (pc = "append" /\ PageLoaded /\ NeitherStrategyMatches(page)) =>
        /\ company_info # None
        /\ company_info.city = <<>>
        /\ company_info.state = <<>>
        /\ company_info.url = unique_links[idx].url
        /\ ~raising

C10_Step ==
    /\ (pc = "company" /\ NeitherStrategyMatches(page) /\ interrupts' = interrupts) =>
          /\ pc' \in {"company", "append"}
          /\ errors' = errors
          /\ companies' = companies
          /\ raising' = raising
    /\ (pc = "append" /\ PageLoaded /\ NeitherStrategyMatches(page)) =>
          /\ pc' = "sleep"
          /\ companies' = Append(companies, company_info)
          /\ errors' = errors
          /\ raising' = raising

\* C10: a company page that loads but on which neither location strategy
\* matches still yields a record with empty city and state, which scrape
\* appends to companies; nothing is raised, the company is not skipped and
\* no entry is added to errors.
C10_MissingLocationTolerated == []C10_Returned /\ [][C10_Step]_vars

C10_Witness ==
    /\ pc = "sleep"
    /\ page # NoPage
    /\ NeitherStrategyMatches(page)
    /\ HasLocationWord(PageText(page))
    /\ companies # <<>>
    /\ Last(companies).city = <<>>
    /\ Last(companies).state = <<>>
    /\ Last(companies).url = unique_links[idx].url
    /\ errors = <<>>

-----------------------------------------------------------------------------
(* Claims about query_groq_for_israeli_companies *)

\* the query has just returned what it extracted from a reply
QueryReturned == pcG = "tag" /\ full_response # <<>>

\* the text is a JSON array all of whose items are objects
IsArrayOfObjects(ts) ==
    /\ JsonLoads(ts).ok
    /\ IsList(JsonLoads(ts).val)
    /\ \A k \in 1..Len(JsonLoads(ts).val.list) : IsDict(JsonLoads(ts).val.list[k])

\* recs holds one record per object of items, in order, each with exactly
\* the schema keys and the object's value or "" under each
RecordsMatch(recs, items) ==
    /\ Len(recs) = Len(items)
    /\ \A k \in 1..Len(items) :
          /\ DOMAIN recs[k] = Schema
          /\ \A key \in Schema :
                recs[k][key] = IF key \in DOMAIN items[k].dict THEN items[k].dict[key]
                               ELSE JStr("")

\* the spans of the reply that are a non-empty JSON array of objects
ArraySpans(ts) ==
    { sp \in (1..Len(ts)) \X (1..Len(ts)) :
        /\ sp[1] < sp[2]
        /\ ts[sp[1]] = "[" /\ ts[sp[2]] = "]"
        /\ IsArrayOfObjects(SubSeq(ts, sp[1], sp[2]))
        /\ JsonLoads(SubSeq(ts, sp[1], sp[2])).val.list # <<>> }

\* C11 as stated: whenever the reply contains a JSON array of objects, the
\* query returns one re-keyed record per object of the array, in array
\* order.
C11_AnyArrayOfObjects ==
    QueryReturned =>
        \A sp \in ArraySpans(full_response) :
            RecordsMatch(gcompanies, JsonLoads(SubSeq(full_response, sp[1], sp[2])).val.list)

\* the text from the first "[" to the last "]" of the reply
BracketSpan(ts) == SubSeq(ts, Find(ts, "["), RFind(ts, "]"))

\* C11 amended: when the text from the first "[" to the last "]" of the
\* reply is a JSON array of objects (the reply may carry prose or a fence
\* around it), the query returns exactly one record per object, in array
\* order, each with exactly the seven schema keys holding the object's value
\* or "" when the object lacks the key.
C11_SpanArrayOfObjects ==
    (QueryReturned /\ Find(full_response, "[") # 0
       /\ RFind(full_response, "]") > Find(full_response, "[")
       /\ IsArrayOfObjects(BracketSpan(full_response))) =>
        RecordsMatch(gcompanies, JsonLoads(BracketSpan(full_response)).val.list)

C11_Witness ==
    /\ QueryReturned
    /\ full_response[1] = Fence
    /\ full_response[Len(full_response)] = Fence
    /\ Find(full_response, "[") # 0
    /\ RFind(full_response, "]") > Find(full_response, "[")
    /\ IsArrayOfObjects(BracketSpan(full_response))
    /\ Len(gcompanies) = 2
    /\ gcompanies[1]["companyName"] = JStr("Acme")
    /\ gcompanies[1]["notes"] = JStr("")
    /\ gcompanies[2]["companyName"] = JStr("Beta")
    /\ gcompanies[2]["notes"] = JNull
    /\ "extra" \in DOMAIN JsonLoads(BracketSpan(full_response)).val.list[2].dict

\* C12: when the text from the first "[" to the last "]" exists but does not
\* parse, the fenced code blocks are searched next and the records of the
\* first fenced array are returned.
C12_BlockSearchedAfterFailedParse ==
    (QueryReturned /\ DecodeFails(full_response)
       /\ FirstBlock(full_response) # <<>>
       /\ IsArrayOfObjects(FirstBlock(full_response))) =>
        RecordsMatch(gcompanies, JsonLoads(FirstBlock(full_response)).val.list)

\* C13: a reply that is a single JSON object gives a one-element sequence
\* holding that object re-keyed against the schema.
C13_SingleObject ==
    (QueryReturned /\ JsonLoads(full_response).ok /\ IsDict(JsonLoads(full_response).val)) =>
        RecordsMatch(gcompanies, <<JsonLoads(full_response).val>>)

\* no JSON can be extracted from the reply: it has no "[", or no "]" after
\* its first "[", or the text between the two does not parse and the reply
\* holds no fenced array either
NothingToExtract(ts) ==
    \/ Find(ts, "[") = 0
    \/ RFind(ts, "]") < Find(ts, "[")
    \/ ~JsonLoads(BracketSpan(ts)).ok /\ FirstBlock(ts) = <<>>

\* C14: for every reply from which no JSON can be extracted the query
\* returns an empty list, and it never ends in an exception.
C14_NothingExtractedIsEmpty ==
    /\ pcG \in {"idle", "load", "query", "tag", "sleep", "returned", "done", "interrupted"}
    /\ (QueryReturned /\ NothingToExtract(full_response)) => gcompanies = <<>>

C14_Witness ==
    /\ QueryReturned
    /\ Find(full_response, "[") # 0
    /\ RFind(full_response, "]") > Find(full_response, "[")
    /\ ~JsonLoads(BracketSpan(full_response)).ok
    /\ FirstBlock(full_response) = <<>>
    /\ gcompanies = <<>>

-----------------------------------------------------------------------------
(* Claims about the two loops *)

\* the number of entries of seq whose url is u
RECURSIVE CountUrl(_, _)
CountUrl(seq, u) ==
    IF seq = <<>> THEN 0
    ELSE (IF Head(seq).url = u THEN 1 ELSE 0) + CountUrl(Tail(seq), u)

\* the links whose turn of the loop of scrape is over
LinksProcessed ==
    IF idx = 0 THEN 0 ELSE IF pc = "sleep" THEN idx ELSE idx - 1

\* the query events of the trace, in order
QueryEvents == SelectSeq(gtrace, LAMBDA e : e.ev = "query")

\* the tagged results of the first n query events, concatenated
RECURSIVE KeptUpTo(_)
KeptUpTo(n) ==
    IF n = 0 THEN <<>>
    ELSE KeptUpTo(n - 1)
         \o [k \in 1..Len(QueryEvents[n].result) |->
               [category |-> gcategories[QueryEvents[n].row].category,
                subcategory |-> gcategories[QueryEvents[n].row].subcategory,
                fields |-> QueryEvents[n].result[k]]]

C15_ScraperGoesOn ==
    /\ (idx > 0) =>
          \A i \in 1..LinksProcessed :
              /\ i <= Len(unique_links)
              /\ CountUrl(companies, unique_links[i].url)
                   + CountUrl(errors, unique_links[i].url) = 1
    /\ (pc = "append" /\ company_info = None) =>
          /\ CountUrl(errors, unique_links[idx].url) = 1
          /\ CountUrl(companies, unique_links[idx].url) = 0
    /\ (pc \in {"close", "done"} /\ idx > 0) => idx = Len(unique_links) + 1

C15_GathererGoesOn ==
    /\ (pcG = "tag" /\ full_response = <<>>) => gcompanies = <<>>
    /\ (pcG \in {"returned", "done"}) =>
          /\ Len(QueryEvents) = Len(gcategories)
          /\ \A n \in 1..Len(QueryEvents) : QueryEvents[n].row = n
          /\ israeli_companies = KeptUpTo(Len(QueryEvents))

C15_Step ==
    /\ \E k \in 0..Len(companies') : companies = SubSeq(companies', 1, k)
    /\ \E k \in 0..Len(errors') : errors = SubSeq(errors', 1, k)
    /\ \E k \in 0..Len(israeli_companies') : israeli_companies = SubSeq(israeli_companies', 1, k)

\* C15: failure of one unit never stops the batch: a company page that
\* fails to load contributes no record and exactly one entry to errors, a
\* model call that throws contributes an empty list, and in both loops every
\* later link or subcategory is still processed and what was gathered is
\* kept.
C15_FailureDoesNotStopBatch ==
    [](C15_ScraperGoesOn /\ C15_GathererGoesOn) /\ [][C15_Step]_vars

C15_Witness ==
    /\ pc = "done"
    /\ Len(unique_links) = 2
    /\ Len(errors) = 1
    /\ errors[1].url = unique_links[1].url
    /\ Len(companies) = 1
    /\ companies[1].url = unique_links[2].url

\* C16: when the categories file is missing or yields no rows, the loaded
\* list is empty and the gather call returns an empty list without issuing
\* any model query and without raising; nothing is written.
C16_NoCategoriesNoQuery ==
    (categories_csv.kind # "rows" \/ categories_csv.rows = <<>>) =>
        /\ gcategories = <<>>
        /\ gtrace = <<>>
        /\ israeli_companies = <<>>
        /\ israeli_csv = NoFile
        /\ pcG \in {"idle", "load", "returned", "done", "interrupted"}

C16_Witness ==
    /\ pcG = "done"
    /\ categories_csv = MissingFile
    /\ gtrace = <<>>
    /\ israeli_companies = <<>>
    /\ israeli_csv = NoFile

\* C17: if a process interrupt arrives during a run of the gatherer after
\* some records have been accumulated, the top-level handler writes the
\* records accumulated so far to the output file before the process exits.
C17_InterruptFlushesRecords ==
    (pcG = "interrupted" /\ israeli_companies # <<>>) =>
        /\ israeli_csv.written
        /\ israeli_csv.rows = israeli_companies

\* the records of the first n query events, each tagged with the row of the
\* categories file its query was made for
RECURSIVE TaggedByFileRow(_)
TaggedByFileRow(n) ==
    IF n = 0 THEN <<>>
    ELSE TaggedByFileRow(n - 1)
         \o [k \in 1..Len(QueryEvents[n].result) |->
               [category |-> categories_csv.rows[QueryEvents[n].row].category,
                subcategory |-> categories_csv.rows[QueryEvents[n].row].subcategory,
                fields |-> QueryEvents[n].result[k]]]

\* the queries whose results the loop has taken in
QueriesKept == IF pcG = "tag" THEN Len(QueryEvents) - 1 ELSE Len(QueryEvents)

\* C18: every record of the gathered list carries the category and
\* subcategory of the categories row whose query produced it; the records
\* are grouped by row in file order and, within a row, in the order of the
\* query result; none is dropped or duplicated.
C18_RecordsTaggedInOrder ==
    /\ pcG # "interrupted" => israeli_companies = TaggedByFileRow(QueriesKept)
    /\ pcG = "done" => israeli_csv.rows = israeli_companies

C18_Witness ==
    /\ pcG = "done"
    /\ Len(QueryEvents) = 2
    /\ Len(QueryEvents[1].result) = 1
    /\ Len(QueryEvents[2].result) = 2
    /\ Len(israeli_companies) = 3
    /\ israeli_companies[1].category # israeli_companies[3].category
    /\ israeli_companies[2].fields # israeli_companies[3].fields
    /\ israeli_csv.written

\* the number of rows the gather call has to query
RowsToQuery ==
    IF categories_csv.kind # "rows" THEN 0
    ELSE IF limit.given /\ limit.n < Len(categories_csv.rows) THEN limit.n
    ELSE Len(categories_csv.rows)

\* C19: with limit n >= 0 the gather call queries exactly the first
\* min(n, number of rows) rows of the categories file, in file order, and no
\* other row; with no limit it queries every row.
C19_LimitBoundsQueries ==
    /\ Len(QueryEvents) <= RowsToQuery
    /\ \A n \in 1..Len(QueryEvents) :
          /\ QueryEvents[n].row = n
          /\ gcategories[n] = categories_csv.rows[n]
    /\ pcG \in {"returned", "done"} => Len(QueryEvents) = RowsToQuery

C19_Witness ==
    /\ pcG = "done"
    /\ limit.given
    /\ limit.n = 1
    /\ Len(categories_csv.rows) = 2
    /\ Len(QueryEvents) = 1
    /\ israeli_companies # <<>>

-----------------------------------------------------------------------------
(* Claims about the categories of scrape *)

\* scrape has gathered the categories of the links
CategoriesGathered == unique_links # <<>> /\ pc \notin {"links"}

PairOf(link) == [category |-> link.category, subcategory |-> link.subcategory]

\* save_categories_to_csv has run
CategoriesSaved == CategoriesGathered /\ as_script /\ pc # "display"

\* C20: after scrape has gathered categories, self.categories holds each
\* (category, subcategory) pair that occurs on a link exactly once and no
\* other pair, and save_categories_to_csv writes those pairs in ascending
\* order by (category, subcategory).
C20_CategoriesUniqueAndSorted ==
    /\ CategoriesGathered =>
          /\ \A k \in 1..Len(unique_links) :
                Cardinality({ i \in 1..Len(categories) :
                                categories[i] = PairOf(unique_links[k]) }) = 1
          /\ \A i \in 1..Len(categories) :
                \E k \in 1..Len(unique_links) : categories[i] = PairOf(unique_links[k])
    /\ CategoriesSaved =>
          /\ Len(categories_file) = Len(categories)
          /\ { categories_file[i] : i \in 1..Len(categories_file) }
               = { categories[i] : i \in 1..Len(categories) }
          /\ \A i, j \in 1..Len(categories_file) :
                i < j => PairBefore(categories_file[i], categories_file[j])
    /\ ~CategoriesSaved => categories_file = <<>>

C20_Witness ==
    /\ pc = "done"
    /\ CategoriesSaved
    /\ Len(categories) = 2
    /\ categories_file # categories
    /\ Len(unique_links) = 2

-----------------------------------------------------------------------------
(* Claims about the files the two programs write *)

\* C21: after save_israeli_companies_to_csv is called with an empty company
\* list, the output file exists and holds the header row only, with no data
\* rows.
C21_EmptyListWritesHeader ==
    (pcG = "done" /\ israeli_companies = <<>>) =>
        /\ israeli_csv.written
        /\ israeli_csv.rows = <<>>

-----------------------------------------------------------------------------
(* Claims about the modes and the pace of the runs *)

\* the company-page fetches of the trace, in order
FetchEvents == SelectSeq(trace, LAMBDA e : e.ev = "fetch")

\* scrape returned to __main__ and no except clause of __main__ ran
ReturnedToMain == as_script /\ pc \in {"done", "exit"} /\ ~raising /\ handler = "none"

\* C22: when just_gather_categories is set and the main page yields links,
\* scrape writes the categories file and returns without fetching any
\* company page: extract_company_info is never called and companies stays
\* empty.
C22_CategoriesOnlyFetchesNoPage ==
    just_gather_categories =>
        /\ FetchEvents = <<>>
        /\ company_info = None
        /\ companies = <<>>
        /\ companies_file = NoFile
        /\ pc \notin {"loop", "company", "append", "sleep"}
        /\ (ReturnedToMain /\ unique_links # <<>>) =>
              /\ categories_file # <<>>
              /\ categories_file = SortedPairs(GatherPairs(unique_links, {}))
              /\ driver = "closed"

C22_Witness ==
    /\ just_gather_categories
    /\ pc = "exit"
    /\ ReturnedToMain
    /\ Len(unique_links) = 2
    /\ Len(categories_file) = 2
    /\ trace = <<>>
    /\ companies = <<>>

-----------------------------------------------------------------------------
(* Claims about equivalent formulations *)

\* the single forward scan over the marker sequence: cat and sub are the two
\* running variables
RECURSIVE ForwardScan(_, _, _)
ForwardScan(items, cat, sub) ==
    IF items = <<>> THEN <<>>
    ELSE LET item == Head(items)
         IN IF item.type = "category" THEN ForwardScan(Tail(items), item.text, Unknown)
            ELSE IF item.type = "subcategory" THEN ForwardScan(Tail(items), cat, item.text)
            ELSE IF ScriptKeeps(item)
              THEN <<[type |-> "link", href |-> item.href, text |-> item.text,
                      category |-> cat, subcategory |-> sub]>>
                   \o ForwardScan(Tail(items), cat, sub)
            ELSE ForwardScan(Tail(items), cat, sub)

\* C23: the single forward scan that keeps two running variables (a Category
\* marker sets the category and resets the subcategory to "Unknown", a
\* Subcategory marker sets the subcategory) produces, for every marker
\* sequence, exactly the attributed links of the backward-scanning loop the
\* program executes.
C23_ForwardScanSameLinks ==
    /\ (pcL \in {"process", "dedupe", "done"} /\ ~degraded) =>
          elements = ForwardScan(ord, Unknown, Unknown)
    /\ (Returned /\ ~degraded) =>
          unique_links = RemoveDuplicates(ProcessElems(ForwardScan(ord, Unknown, Unknown)))

\* the texts the two location strategies have matched their patterns
\* against on this page: the text gathered at each header examined, and the
\* section the full-text scan has cut out of the page text
MatchedTexts ==
    { GatherCandidate(page.blocks[examined[k]]) :
        k \in { n \in 1..Len(examined) : HeaderPasses(page.blocks[examined[n]]) } }
    \cup (IF scanned THEN {LocationSection(PageText(page))} ELSE {})

\* C24: the full-text scan applies the same pattern matching as the
\* heading-anchored strategy: on the same gathered text both strategies try
\* the same patterns in the same priority order with the same fallback and
\* return the same city and state, or both return nothing.
C24_SamePatternMatching ==
    \A t \in MatchedTexts \ {<<>>} :
        LET h == LocationFromCandidate(t)
            f == SectionPatterns(t, 1)
        IN  /\ f.found = h.found
            /\ f.city = h.city
            /\ f.state = h.state

-----------------------------------------------------------------------------
(* Claims about the order of the requests *)

\* in a trace, every request but the first comes right after one delay,
\* which comes right after the end of the request before it
OneDelayBetween(tr, request, end) ==
    \A k \in 1..Len(tr) :
        /\ (tr[k].ev = request /\ k > 1) =>
              /\ tr[k - 1].ev = "sleep"
              /\ k > 2
              /\ tr[k - 2].ev = end
        /\ tr[k].ev = "sleep" => (k > 1 /\ tr[k - 1].ev = end)

\* every fetch that is over ended before anything else began
FetchesEndInTurn ==
    \A k \in 1..Len(trace) :
        /\ trace[k].ev = "end" =>
              (k > 1 /\ trace[k - 1].ev = "fetch" /\ trace[k - 1].link = trace[k].link)
        /\ (trace[k].ev = "fetch" /\ k < Len(trace)) =>
              (trace[k + 1].ev = "end" /\ trace[k + 1].link = trace[k].link)

\* C25: requests are strictly sequential and rate-limited: no company-page
\* fetch or model query starts before the previous one has fully completed,
\* and between any two consecutive company-page fetches and between any two
\* consecutive model queries one fixed delay step occurs.
C25_SequentialAndDelayed ==
    /\ FetchesEndInTurn
    /\ OneDelayBetween(trace, "fetch", "end")
    /\ OneDelayBetween(gtrace, "query", "query")
    /\ pc = "company" => (trace # <<>> /\ Last(trace) = FetchEvent(idx))
    /\ pcG = "sleep" => (gtrace # <<>> /\ Last(gtrace).ev = "query")

C25_Witness ==
    /\ pc = "company"
    /\ Len(trace) = 4
    /\ trace[1] = FetchEvent(1)
    /\ trace[2] = EndEvent(1)
    /\ trace[3] = DelayEvent(1)
    /\ trace[4] = FetchEvent(2)
    /\ errors # <<>>

\* the number of fetches of the company page at url u
FetchCount(u) ==
    Cardinality({ k \in 1..Len(trace) :
                    trace[k].ev = "fetch" /\ unique_links[trace[k].link].url = u })

\* the number of queries made for row i of the categories file
QueryCount(i) ==
    Cardinality({ k \in 1..Len(gtrace) : gtrace[k].ev = "query" /\ gtrace[k].row = i })

\* the gather call has run to its end
GatherOver == pcG \in {"returned", "done"}

EachUrlFetchedAtMostOnce ==
    \A i \in 1..Len(unique_links) : FetchCount(unique_links[i].url) <= 1

\* C26 as stated: each company URL is fetched at most once, each row of the
\* categories file is queried exactly once, and nothing is retried.
C26_EveryRowQueriedOnce ==
    /\ EachUrlFetchedAtMostOnce
    /\ categories_csv.kind = "rows" =>
          \A i \in 1..Len(categories_csv.rows) :
              /\ QueryCount(i) <= 1
              /\ GatherOver => QueryCount(i) = 1

\* C26 amended: within one scrape run each company URL is fetched at most
\* once; within one gather run each categories row the limit keeps (each
\* row when no limit is given) is queried exactly once and a row beyond the
\* limit is never queried; a fetch or query that failed is never retried.
C26_KeptRowsQueriedOnce ==
    /\ EachUrlFetchedAtMostOnce
    /\ \A k \in 1..Len(gtrace) : gtrace[k].row \in 1..RowsToQuery
    /\ \A i \in 1..Len(categories_csv.rows) :
          /\ QueryCount(i) <= 1
          /\ (GatherOver /\ i <= RowsToQuery) => QueryCount(i) = 1
          /\ i > RowsToQuery => QueryCount(i) = 0

C26_Witness ==
    /\ pcG = "done"
    /\ limit.given
    /\ limit.n = 1
    /\ Len(categories_csv.rows) = 2
    /\ QueryCount(1) = 1
    /\ QueryCount(2) = 0
    /\ QueryEvents[1].result = <<>>
    /\ israeli_csv = NoFile

-----------------------------------------------------------------------------
(* Claims about interrupts, failures and the end of scrape *)

\* an except clause of the scraper's __main__ is about to run or has run
HandlerRuns == pc \in {"interrupt_handler", "fatal_handler"} \/ handler # "none"

\* C27: whenever the top-level interrupt or fatal-error handler of the
\* directory scraper runs, the categories file has already been written: the
\* categories are saved before any point at which the run can be
\* interrupted or fail.
C27_CategoriesSavedBeforeHandler ==
    HandlerRuns => categories_file # <<>>

\* scrape has returned or an exception has left it
ScrapeEnded == pc \in {"done", "propagated", "interrupt_handler", "fatal_handler", "exit"}

C28_Step ==
    (driver = "open" /\ ~ScrapeEnded /\ ScrapeEnded') => driver' = "closed"

\* C28: once setup_driver has succeeded, every way of leaving scrape (main
\* page failed to load, no links found, categories-only mode, normal
\* completion, an exception or an interrupt inside the run) closes the
\* WebDriver before scrape returns or propagates; the WebDriver is never
\* left open after scrape ends.
C28_DriverClosedOnEveryExit ==
    [](ScrapeEnded => driver # "open") /\ [][C28_Step]_vars

C28_Witness ==
    /\ pc = "interrupt_handler"
    /\ driver = "closed"
    /\ companies # <<>>
    /\ idx = 2
    /\ handler = "none"

\* the entries of errors left by company pages (the main page can leave one
\* too)
CompanyErrors == SelectSeq(errors, LAMBDA e : e.url # main_url)

\* scrape is inside its loop over the links
InLoop == pc \in {"loop", "company", "append", "sleep"}

\* the links that have contributed so far: those of the turns that are
\* over and, once its page has failed or its record was appended, the link
\* of the current turn
LinksSettled ==
    IF pc = "sleep" \/ (pc = "append" /\ company_info = None) THEN idx ELSE idx - 1

\* C29: at every point of the company-page loop of scrape, each link
\* processed so far has contributed to exactly one of the two accumulators:
\* the number of records in companies plus the number of company-page
\* entries in errors equals the number of links processed, and each
\* record's category, subcategory and url equal those of the link it was
\* built from.
C29_OneContributionPerLink ==
    /\ InLoop =>
          /\ Len(companies) + Len(CompanyErrors) = LinksSettled
          /\ \A i \in 1..LinksSettled :
                CountUrl(companies, unique_links[i].url)
                  + CountUrl(CompanyErrors, unique_links[i].url) = 1
          /\ \A k \in 1..Len(companies) :
                \E i \in 1..LinksSettled :
                    /\ companies[k].url = unique_links[i].url
                    /\ companies[k].category = unique_links[i].category
                    /\ companies[k].subcategory = unique_links[i].subcategory
    /\ (pc \in {"close", "done", "exit"} /\ idx > 0 /\ ~raising /\ handler = "none") =>
          Len(companies) + Len(CompanyErrors) = Len(unique_links)

C29_Witness ==
    /\ pc = "sleep"
    /\ idx = 2
    /\ Len(companies) = 1
    /\ Len(CompanyErrors) = 1
    /\ companies[1].url = unique_links[1].url
    /\ companies[1].category # companies[1].subcategory
    /\ errors[1].url = unique_links[2].url

\* a KeyboardInterrupt is raised in this step while extract_company_links or
\* extract_company_info is at work
C30_Step ==
    (interrupts' = interrupts + 1 /\ pc \in {"links", "company"}) =>
        /\ raising'
        /\ pc' = "unwind"

\* C30: a process interrupt raised at any point while the directory scraper
\* is extracting links or processing a company page propagates to the
\* top-level handler and ends the run; no exception handler inside
\* extract_company_links, extract_company_info or close_driver absorbs it
\* and lets the loop continue.
C30_InterruptEndsRun ==
    /\ [][C30_Step]_vars
    /\ []((interrupts > 0 /\ as_script /\ pc = "exit") => handler = "interrupt")

====
